---- MODULE Spec2Model ----
(***************************************************************************)
(* Model of the historical image analysis pipeline (event_analyzer).       *)
(*                                                                         *)
(*   - JSON values and the Python built-ins the validator relies on        *)
(*   - validate_result / get_default_value / get_error_response (app.py)   *)
(*   - process_multiple_images, the per-image batch loop (app.py)          *)
(***************************************************************************)
EXTENDS Integers, Sequences, FiniteSets, TLC

(***************************************************************************)
(* Bounds of the model.                                                    *)
(***************************************************************************)
\* how far beyond each end of a numeric range the integer inputs reach
Margin == 1
\* largest number of images in one batch
MaxImages == 2

\* the greatest number of rows a table is filled with
MaxRows == 2

\* the greatest limit a history or search call is given
MaxLimit == 2

\* the number of distinct years the archive of the statistics page spans
MaxYears == 11

(***************************************************************************)
(* JSON values as json.loads produces them.  Every value is a record of    *)
(* the same shape: t is the Python type, n the number (a float is held in  *)
(* units of 1/10000), s the text, d the items of a dict, l the items of a  *)
(* list.                                                                   *)
(***************************************************************************)
NoItems == [k \in {} |-> 0]

PyInt(n) == [t |-> "int", n |-> n, s |-> "", d |-> NoItems, l |-> <<>>]
PyStr(s) == [t |-> "str", n |-> 0, s |-> s, d |-> NoItems, l |-> <<>>]
PyBool(b) == [t |-> "bool", n |-> IF b THEN 1 ELSE 0, s |-> "", d |-> NoItems, l |-> <<>>]
PyNone == [t |-> "NoneType", n |-> 0, s |-> "", d |-> NoItems, l |-> <<>>]
\* a finite float, given in units of 1/10000 (507000 is 50.7)
PyFloat(u) == [t |-> "float", n |-> u, s |-> "", d |-> NoItems, l |-> <<>>]
\* the float NaN, which json.loads accepts as the literal NaN
PyNaN == [t |-> "float", n |-> 0, s |-> "nan", d |-> NoItems, l |-> <<>>]
PyDict(items) == [t |-> "dict", n |-> 0, s |-> "", d |-> items, l |-> <<>>]
PyList(items) == [t |-> "list", n |-> 0, s |-> "", d |-> NoItems, l |-> items]

\* d[k] = v on a Python dict: the key is added or overwritten
DictSet(d, k, v) == [x \in (DOMAIN d) \cup {k} |-> IF x = k THEN v ELSE d[x]]

\* Python truth value of a JSON value
PyTruthy(v) ==
  CASE v.t = "NoneType" -> FALSE
    [] v.t = "bool" -> v.n = 1
    [] v.t = "int" -> v.n # 0
    [] v.t = "float" -> v.s = "nan" \/ v.n # 0
    [] v.t = "str" -> v.s # ""
    [] v.t = "dict" -> DOMAIN v.d # {}
    [] v.t = "list" -> Len(v.l) > 0

(***************************************************************************)
(* int(x) of Python.  The result is [ok, n]: ok is FALSE where int()       *)
(* raises ValueError or TypeError.                                         *)
(***************************************************************************)
Digits == {"0", "1", "2", "3", "4", "5", "6", "7", "8", "9"}

DigitVal(c) ==
  CASE c = "0" -> 0 [] c = "1" -> 1 [] c = "2" -> 2 [] c = "3" -> 3
    [] c = "4" -> 4 [] c = "5" -> 5 [] c = "6" -> 6 [] c = "7" -> 7
    [] c = "8" -> 8 [] c = "9" -> 9

CharAt(s, i) == SubSeq(s, i, i)

Whitespace == {" ", "\t", "\n", "\r"}

RECURSIVE LStrip(_)
LStrip(s) ==
  IF Len(s) > 0 /\ CharAt(s, 1) \in Whitespace
  THEN LStrip(SubSeq(s, 2, Len(s)))
  ELSE s

RECURSIVE RStrip(_)
RStrip(s) ==
  IF Len(s) > 0 /\ CharAt(s, Len(s)) \in Whitespace
  THEN RStrip(SubSeq(s, 1, Len(s) - 1))
  ELSE s

\* the digits of an integer literal from position i on; single underscores
\* are allowed between digits
RECURSIVE ParseDigits(_, _, _, _)
ParseDigits(s, i, acc, afterDigit) ==
  IF i > Len(s)
  THEN [ok |-> afterDigit, n |-> acc]
  ELSE LET c == CharAt(s, i) IN
       IF c \in Digits
       THEN ParseDigits(s, i + 1, acc * 10 + DigitVal(c), TRUE)
       ELSE IF c = "_" /\ afterDigit
            THEN ParseDigits(s, i + 1, acc, FALSE)
            ELSE [ok |-> FALSE, n |-> 0]

\* int(s) for a str: optional surrounding whitespace, optional sign, digits
PyIntOfStr(s) ==
  LET b == RStrip(LStrip(s))
      signed == Len(b) > 0 /\ CharAt(b, 1) \in {"+", "-"}
      body == IF signed THEN SubSeq(b, 2, Len(b)) ELSE b
      p == ParseDigits(body, 1, 0, FALSE)
  IN IF ~p.ok
     THEN [ok |-> FALSE, n |-> 0]
     ELSE [ok |-> TRUE, n |-> IF signed /\ CharAt(b, 1) = "-" THEN 0 - p.n ELSE p.n]

\* int(f) for a finite float truncates towards zero
PyTruncFloat(u) == IF u >= 0 THEN u \div 10000 ELSE 0 - ((0 - u) \div 10000)

PyIntOf(v) ==
  CASE v.t = "int" -> [ok |-> TRUE, n |-> v.n]
    [] v.t = "bool" -> [ok |-> TRUE, n |-> v.n]
    [] v.t = "float" -> IF v.s = "nan"
                        THEN [ok |-> FALSE, n |-> 0]
                        ELSE [ok |-> TRUE, n |-> PyTruncFloat(v.n)]
    [] v.t = "str" -> PyIntOfStr(v.s)
    [] OTHER -> [ok |-> FALSE, n |-> 0]

\* str(e) of the exception int(v) raises
PyIntError(v) ==
  CASE v.t = "str" -> "invalid literal for int() with base 10: '" \o v.s \o "'"
    [] v.t = "float" -> "cannot convert float NaN to integer"
    [] OTHER -> "int() argument must be a string, a bytes-like object or a real number, not '"
                  \o v.t \o "'"

PyMax(a, b) == IF a >= b THEN a ELSE b
PyMin(a, b) == IF a <= b THEN a ELSE b

(***************************************************************************)
(* ResultValidator: validate_result and its defaults (app.py).             *)
(***************************************************************************)
required_fields ==
  <<"title", "event", "description", "location_name", "year", "exact_date",
    "confidence", "ai_generated_probability", "prompt", "celebrity",
    "celebrity_name">>

score_types == <<"year", "location", "event", "exact_date">>

SeqRange(q) == {q[j] : j \in 1..Len(q)}

\* the defaults table of get_default_value
defaults ==
  [title |-> PyStr("Historical Event"),
   event |-> PyStr("Unidentified Historical Event"),
   description |-> PyStr("Unable to determine specific historical event from available evidence."),
   location_name |-> PyStr("Unknown Location"),
   year |-> PyStr("Unknown"),
   exact_date |-> PyStr("Unknown"),
   confidence |-> PyDict([year |-> PyInt(0), location |-> PyInt(0),
                          event |-> PyInt(0), exact_date |-> PyInt(0)]),
   ai_generated_probability |-> PyInt(0),
   ai_analysis |-> PyStr("Unable to determine if AI-generated"),
   prompt |-> PyStr("Historical photograph with unidentified subjects and context"),
   celebrity |-> PyBool(FALSE),
   celebrity_name |-> PyNone]

\* get_default_value with the unknown-location text of get_error_response
get_default_value_ShortLocation(field) ==
  IF field = "location_name"
  THEN PyStr("Unknown")
  ELSE IF field \in DOMAIN defaults THEN defaults[field] ELSE PyStr("Unknown")

get_default_value(field) ==
  IF field \in DOMAIN defaults THEN defaults[field] ELSE PyStr("Unknown")

\* for field in required_fields: if field not in result: result[field] = default
RECURSIVE FillRequired(_, _)
FillRequired(result, j) ==
  IF j > Len(required_fields)
  THEN result
  ELSE LET field == required_fields[j] IN
       IF field \notin DOMAIN result
       THEN FillRequired(DictSet(result, field, get_default_value(field)), j + 1)
       ELSE FillRequired(result, j + 1)

\* ClampScore without the upper limit: max(0, n)
ClampScore_NoUpperLimit(n) == PyMax(0, n)

\* max(0, min(100, n))
ClampScore(n) == PyMax(0, PyMin(100, n))

\* the value given to a score key that the confidence mapping lacks
MissingScore(score_type) == PyInt(50)

\* the loop over the four score keys, from the j-th on; int() raising ends
\* the loop and leaves the mapping as the earlier rounds made it
RECURSIVE ScoreLoop(_, _)
ScoreLoop(confidence, j) ==
  IF j > Len(score_types)
  THEN [raised |-> FALSE, val |-> confidence, err |-> ""]
  ELSE LET score_type == score_types[j] IN
       IF score_type \notin DOMAIN confidence
       THEN ScoreLoop(DictSet(confidence, score_type, MissingScore(score_type)), j + 1)
       ELSE LET c == PyIntOf(confidence[score_type]) IN
            IF ~c.ok
            THEN [raised |-> TRUE, val |-> confidence,
                  err |-> PyIntError(confidence[score_type])]
            ELSE ScoreLoop(DictSet(confidence, score_type, PyInt(ClampScore(c.n))), j + 1)

\* the mapping written when confidence is not a mapping
FallbackConfidence ==
  PyDict([year |-> PyInt(50), location |-> PyInt(50),
          event |-> PyInt(50), exact_date |-> PyInt(0)])

\* the confidence mapping as the loop left it, back in the result
ConfidenceStored(result, c) ==
  [raised |-> c.raised, val |-> DictSet(result, "confidence", PyDict(c.val)),
   err |-> c.err]

\* "Validate confidence scores"
ValidateConfidence(result) ==
  IF "confidence" \in DOMAIN result /\ result["confidence"].t = "dict"
  THEN ConfidenceStored(result, ScoreLoop(result["confidence"].d, 1))
  ELSE [raised |-> FALSE, val |-> DictSet(result, "confidence", FallbackConfidence),
        err |-> ""]

\* ValidateYear with the lower limit off by one: year <= 1800
ValidateYear_LowerLimitOff(result) ==
  IF "year" \in DOMAIN result
  THEN LET c == PyIntOf(result["year"]) IN
       IF ~c.ok
       THEN DictSet(result, "year", PyStr("Unknown"))
       ELSE IF c.n <= 1800 \/ c.n > 2024
            THEN DictSet(result, "year", PyStr("Unknown"))
            ELSE DictSet(result, "year", PyInt(c.n))
  ELSE result

\* ValidateYear writing None, not "Unknown", for a year out of range
ValidateYear_NoneOutOfRange(result) ==
  IF "year" \in DOMAIN result
  THEN LET c == PyIntOf(result["year"]) IN
       IF ~c.ok
       THEN DictSet(result, "year", PyStr("Unknown"))
       ELSE IF c.n < 1800 \/ c.n > 2024
            THEN DictSet(result, "year", PyNone)
            ELSE DictSet(result, "year", PyInt(c.n))
  ELSE result

\* "Validate year"
ValidateYear(result) ==
  IF "year" \in DOMAIN result
  THEN LET c == PyIntOf(result["year"]) IN
       IF ~c.ok
       THEN DictSet(result, "year", PyStr("Unknown"))
       ELSE IF c.n < 1800 \/ c.n > 2024
            THEN DictSet(result, "year", PyStr("Unknown"))
            ELSE DictSet(result, "year", PyInt(c.n))
  ELSE result

\* ValidateAiProbability without the clamp
ValidateAiProbability_NoClamp(result) ==
  IF "ai_generated_probability" \in DOMAIN result
  THEN LET c == PyIntOf(result["ai_generated_probability"]) IN
       IF ~c.ok
       THEN DictSet(result, "ai_generated_probability", PyInt(0))
       ELSE DictSet(result, "ai_generated_probability", PyInt(c.n))
  ELSE result

\* "Validate AI generation probability"
ValidateAiProbability(result) ==
  IF "ai_generated_probability" \in DOMAIN result
  THEN LET c == PyIntOf(result["ai_generated_probability"]) IN
       IF ~c.ok
       THEN DictSet(result, "ai_generated_probability", PyInt(0))
       ELSE DictSet(result, "ai_generated_probability", PyInt(PyMax(0, PyMin(100, c.n))))
  ELSE result

\* the year and probability steps, reached when the confidence step returned
YearAndProbabilityAfter(c) ==
  IF c.raised
  THEN c
  ELSE [raised |-> FALSE, val |-> ValidateAiProbability(ValidateYear(c.val)),
        err |-> ""]

\* validate_result(result): [raised, val, err]; val is the mapping as the call
\* left it (the mapping is changed in place), returned when raised is FALSE;
\* err is the text of the exception when raised is TRUE
validate_result(result) ==
  YearAndProbabilityAfter(ValidateConfidence(FillRequired(result, 1)))

\* get_error_response whose description leaves the error message out
get_error_response_ReasonOmitted(error_message) ==
  [title |-> PyStr("Analysis Error"),
   event |-> PyStr("Error During Analysis"),
   description |-> PyStr("Error occurred during historical analysis"),
   location_name |-> PyStr("Unknown"),
   year |-> PyStr("Unknown"),
   exact_date |-> PyStr("Unknown"),
   confidence |-> PyDict([year |-> PyInt(0), location |-> PyInt(0),
                          event |-> PyInt(0), exact_date |-> PyInt(0)]),
   ai_generated_probability |-> PyInt(0),
   ai_analysis |-> PyStr("Could not analyze due to error"),
   prompt |-> PyStr("Error occurred during analysis"),
   celebrity |-> PyBool(FALSE),
   celebrity_name |-> PyNone]

\* get_error_response(error_message)
get_error_response(error_message) ==
  [title |-> PyStr("Analysis Error"),
   event |-> PyStr("Error During Analysis"),
   description |-> PyStr("Error occurred during historical analysis: " \o error_message),
   location_name |-> PyStr("Unknown"),
   year |-> PyStr("Unknown"),
   exact_date |-> PyStr("Unknown"),
   confidence |-> PyDict([year |-> PyInt(0), location |-> PyInt(0),
                          event |-> PyInt(0), exact_date |-> PyInt(0)]),
   ai_generated_probability |-> PyInt(0),
   ai_analysis |-> PyStr("Could not analyze due to error"),
   prompt |-> PyStr("Error occurred during analysis"),
   celebrity |-> PyBool(FALSE),
   celebrity_name |-> PyNone]

(***************************************************************************)
(* Text helpers: the str methods and conversions the pipeline uses.        *)
(***************************************************************************)
DigitChar(k) == CharAt("0123456789", k + 1)

RECURSIVE PyStrOfNat(_)
PyStrOfNat(n) ==
  IF n < 10 THEN DigitChar(n) ELSE PyStrOfNat(n \div 10) \o DigitChar(n % 10)

PyStrOfInt(n) == IF n < 0 THEN "-" \o PyStrOfNat(0 - n) ELSE PyStrOfNat(n)

\* str(v) as an f-string renders it (floats, lists and dicts never get here)
PyStrOf(v) ==
  CASE v.t = "str" -> v.s
    [] v.t = "int" -> PyStrOfInt(v.n)
    [] v.t = "bool" -> IF v.n = 1 THEN "True" ELSE "False"
    [] v.t = "NoneType" -> "None"

\* the lower-case letter of every upper-case ASCII letter
LowerOf ==
  "A" :> "a" @@ "B" :> "b" @@ "C" :> "c" @@ "D" :> "d" @@ "E" :> "e" @@ "F" :> "f" @@
  "G" :> "g" @@ "H" :> "h" @@ "I" :> "i" @@ "J" :> "j" @@ "K" :> "k" @@ "L" :> "l" @@
  "M" :> "m" @@ "N" :> "n" @@ "O" :> "o" @@ "P" :> "p" @@ "Q" :> "q" @@ "R" :> "r" @@
  "S" :> "s" @@ "T" :> "t" @@ "U" :> "u" @@ "V" :> "v" @@ "W" :> "w" @@ "X" :> "x" @@
  "Y" :> "y" @@ "Z" :> "z"

LowerChar(c) == IF c \in DOMAIN LowerOf THEN LowerOf[c] ELSE c

\* s.lower()
RECURSIVE PyLower(_)
PyLower(s) ==
  IF Len(s) = 0 THEN "" ELSE LowerChar(CharAt(s, 1)) \o PyLower(SubSeq(s, 2, Len(s)))

\* sub in s
Contains(s, sub) ==
  \E k \in 1..(Len(s) - Len(sub) + 1) : SubSeq(s, k, k + Len(sub) - 1) = sub

\* s.startswith(prefix)
StartsWith(s, prefix) == Len(s) >= Len(prefix) /\ SubSeq(s, 1, Len(prefix)) = prefix

\* s.replace(c, r) for a single character c
RECURSIVE ReplaceChar(_, _, _)
ReplaceChar(s, c, r) ==
  IF Len(s) = 0
  THEN ""
  ELSE (IF CharAt(s, 1) = c THEN r ELSE CharAt(s, 1))
         \o ReplaceChar(SubSeq(s, 2, Len(s)), c, r)

\* s.split(c)[0]
RECURSIVE BeforeFirst(_, _)
BeforeFirst(s, c) ==
  IF Len(s) = 0 \/ CharAt(s, 1) = c
  THEN ""
  ELSE CharAt(s, 1) \o BeforeFirst(SubSeq(s, 2, Len(s)), c)

\* the characters quote() never escapes
UnreservedChars ==
  {"A", "B", "C", "D", "E", "F", "G", "H", "I", "J", "K", "L", "M", "N", "O", "P", "Q", "R", "S", "T", "U", "V", "W", "X", "Y", "Z"}
    \cup
  {"a", "b", "c", "d", "e", "f", "g", "h", "i", "j", "k", "l", "m", "n", "o", "p", "q", "r", "s", "t", "u", "v", "w", "x", "y", "z"}
    \cup
  {"0", "1", "2", "3", "4", "5", "6", "7", "8", "9", "_", ".", "-", "~"}

IsUnreserved(c) == c \in UnreservedChars

\* the %XX escape of an ASCII character that is not unreserved
PercentEscape(c) ==
  CASE c = " " -> "%20" [] c = "!" -> "%21" [] c = "#" -> "%23" [] c = "$" -> "%24"
    [] c = "%" -> "%25" [] c = "&" -> "%26" [] c = "'" -> "%27" [] c = "(" -> "%28"
    [] c = ")" -> "%29" [] c = "*" -> "%2A" [] c = "+" -> "%2B" [] c = "," -> "%2C"
    [] c = "/" -> "%2F" [] c = ":" -> "%3A" [] c = ";" -> "%3B" [] c = "=" -> "%3D"
    [] c = "?" -> "%3F" [] c = "@" -> "%40"

\* urllib.parse.quote(s, safe) for ASCII text
RECURSIVE Quote(_, _)
Quote(s, safe) ==
  IF Len(s) = 0
  THEN ""
  ELSE LET c == CharAt(s, 1) IN
       (IF IsUnreserved(c) \/ c \in safe THEN c ELSE PercentEscape(c))
         \o Quote(SubSeq(s, 2, Len(s)), safe)

(***************************************************************************)
(* GeoLookup: get_gps_coordinates of app.py, a table of known places.      *)
(***************************************************************************)
common_locations ==
  <<[key |-> "berlin, germany", coords |-> <<525200, 134050>>],
    [key |-> "new york, usa", coords |-> <<407128, 0 - 740060>>],
    [key |-> "london, england", coords |-> <<515074, 0 - 1278>>],
    [key |-> "paris, france", coords |-> <<488566, 23522>>],
    [key |-> "washington dc, usa", coords |-> <<389072, 0 - 770369>>],
    [key |-> "moscow, russia", coords |-> <<557558, 376176>>],
    [key |-> "beijing, china", coords |-> <<399042, 1164074>>],
    [key |-> "tokyo, japan", coords |-> <<356762, 1396503>>]>>

\* the loop over the table from the j-th entry on
RECURSIVE LookupLocation(_, _)
LookupLocation(location_lower, j) ==
  IF j > Len(common_locations)
  THEN PyNone
  ELSE IF Contains(location_lower, common_locations[j].key)
       THEN PyList(<<PyFloat(common_locations[j].coords[1]),
                     PyFloat(common_locations[j].coords[2])>>)
       ELSE LookupLocation(location_lower, j + 1)

\* get_gps_coordinates(location_name): [raised, val, err]; a value without
\* lower() raises AttributeError
get_gps_coordinates(location_name) ==
  IF location_name.t # "str"
  THEN [raised |-> TRUE, val |-> PyNone,
        err |-> "'" \o location_name.t \o "' object has no attribute 'lower'"]
  ELSE [raised |-> FALSE, val |-> LookupLocation(PyLower(location_name.s), 1),
        err |-> ""]

(***************************************************************************)
(* ReferenceLinkBuilder: generate_wikipedia_url of app.py.                 *)
(***************************************************************************)
\* search_terms[-1] if there are two terms, else search_terms[0]
SearchTerm(event_name, location) ==
  IF PyTruthy(location)
  THEN PyStr(PyStrOf(event_name) \o " " \o PyStrOf(location))
  ELSE event_name

\* the mapping generate_wikipedia_url returns for a search term, or None
\* when quote() raises on a search term that is not text
WikipediaLinks(search_term) ==
  IF search_term.t # "str"
  THEN PyNone
  ELSE PyDict(
         [title |-> PyStr("Wikipedia: " \o search_term.s),
          search_url |-> PyStr("https://en.wikipedia.org/wiki/Special:Search?search="
                                 \o Quote(search_term.s, {"/"})),
          direct_url |-> PyStr("https://en.wikipedia.org/wiki/"
                                 \o Quote(ReplaceChar(search_term.s, " ", "_"), {"/"})),
          summary |-> PyStr("Search Wikipedia for information about " \o search_term.s)])

generate_wikipedia_url(event_name, location) ==
  WikipediaLinks(SearchTerm(event_name, location))

(***************************************************************************)
(* ImageStore: upload_image (firebase_storage.py) and                      *)
(* save_image_and_get_url (app.py).                                        *)
(***************************************************************************)
\* datetime.now().strftime("%Y%m%d_%H%M%S") at the time of the call
Timestamp == "20240513_101500"

\* f"{timestamp}_{image_index}_{base_filename}.webp"
StoredFilename(uploaded_file, image_index) ==
  LET base_filename ==
        ReplaceChar(ReplaceChar(ReplaceChar(BeforeFirst(uploaded_file.name, "."),
                                            " ", "_"), "(", ""), ")", "")
  IN Timestamp \o "_" \o PyStrOfInt(image_index) \o "_" \o base_filename \o ".webp"

\* upload_image: the public URL when the file decodes and the store accepted
\* the upload, else None (Image.open or the request raised, the manager is
\* not initialized, or the store refused)
upload_image(uploaded_file, image_index, upload_ok) ==
  IF uploaded_file.readable /\ upload_ok
  THEN PyStr("https://firebasestorage.googleapis.com/v0/b/historify-ai.firebasestorage.app/o/"
               \o Quote("Analysis/" \o StoredFilename(uploaded_file, image_index), {})
               \o "?alt=media")
  ELSE PyNone

\* save_image_and_get_url that writes the local copy whenever it can
save_image_and_get_url_LocalFirst(uploaded_file, image_index, upload_ok, local_ok) ==
  IF uploaded_file.readable /\ local_ok
  THEN PyStr("local_storage://uploaded_images/"
               \o StoredFilename(uploaded_file, image_index))
  ELSE upload_image(uploaded_file, image_index, upload_ok)

\* save_image_and_get_url: the remote URL, else the local pseudo-URL, else
\* None when decoding or writing the local copy raised
save_image_and_get_url(uploaded_file, image_index, upload_ok, local_ok) ==
  LET firebase_url == upload_image(uploaded_file, image_index, upload_ok) IN
  IF PyTruthy(firebase_url)
  THEN firebase_url
  ELSE IF uploaded_file.readable /\ local_ok
       THEN PyStr("local_storage://uploaded_images/"
                    \o StoredFilename(uploaded_file, image_index))
       ELSE PyNone

(***************************************************************************)
(* VisionAnalyzer: analyze_historical_image of app.py.  The outcome of the *)
(* model call is either the decoded JSON payload or the text of the        *)
(* exception the call or the decoding raised.                              *)
(***************************************************************************)
VisionPayload(p) == [kind |-> "payload", payload |-> p, message |-> ""]
VisionError(m) == [kind |-> "error", payload |-> NoItems, message |-> m]

\* return validate_result(result), or the error response when it raised
ValidatedOrError(c) == IF c.raised THEN get_error_response(c.err) ELSE c.val

analyze_historical_image(vision) ==
  IF vision.kind = "error"
  THEN get_error_response(vision.message)
  ELSE ValidatedOrError(validate_result(vision.payload))

(***************************************************************************)
(* Raw payloads handed to the validator.                                   *)
(***************************************************************************)
optional_fields == <<"ai_analysis", "extracted_text", "visual_elements">>

AllFields == SeqRange(required_fields) \cup SeqRange(optional_fields)

\* a complete, well-formed model response
SamplePayload ==
  [title |-> PyStr("Fall of the Berlin Wall"),
   event |-> PyStr("Fall of the Berlin Wall"),
   description |-> PyStr("Crowds gather on top of the wall."),
   location_name |-> PyStr("Berlin, Germany"),
   year |-> PyInt(1989),
   exact_date |-> PyStr("1989-11-09"),
   confidence |-> PyDict([year |-> PyInt(95), location |-> PyInt(90),
                          event |-> PyInt(92), exact_date |-> PyInt(80)]),
   ai_generated_probability |-> PyInt(5),
   ai_analysis |-> PyStr("Film grain consistent with the period."),
   extracted_text |-> PyStr("No visible text detected"),
   visual_elements |-> PyList(<<PyStr("wall"), PyStr("crowd")>>),
   prompt |-> PyStr("Black and white photograph of a crowd on a concrete wall"),
   celebrity |-> PyBool(FALSE),
   celebrity_name |-> PyNone]

Restrict(f, K) == [k \in K |-> f[k]]

\* the integers around both ends of the range lo..hi
IntSamples(lo, hi) == ((lo - Margin)..lo) \cup (hi..(hi + Margin))

ScoreInputs ==
  {PyInt(n) : n \in IntSamples(0, 100) \cup {50}}
    \cup {PyStr("75"), PyStr("abc"), PyFloat(507000), PyNone}

\* every confidence mapping over a subset of the four score keys
ConfidenceDicts ==
  UNION {[K -> ScoreInputs] : K \in SUBSET SeqRange(score_types)}

NonDictConfidence ==
  {PyStr("high"), PyNone, PyInt(80), PyList(<<PyInt(90)>>)}

YearInputs ==
  {PyInt(n) : n \in IntSamples(1800, 2024) \cup {1945}}
    \cup {PyStr("1945"), PyStr("1776"), PyStr(" 1989 "), PyStr("Unknown"),
          PyStr("c. 1945"), PyStr("1945.0"), PyStr(""), PyFloat(19455000),
          PyNaN, PyNone, PyBool(TRUE), PyList(<<>>)}

AiInputs ==
  {PyInt(n) : n \in IntSamples(0, 100) \cup {70}}
    \cup {PyStr("85"), PyStr("150"), PyStr("-5"), PyStr("85%"), PyStr("85.5"),
          PyStr("high"), PyFloat(855000), PyFloat(0 - 5000), PyNone,
          PyBool(TRUE)}

\* the sample response with any subset of its keys missing
MissingPayloads == {Restrict(SamplePayload, K) : K \in SUBSET AllFields}

\* the sample response with every confidence mapping
ConfidencePayloads ==
  {DictSet(SamplePayload, "confidence", PyDict(c)) : c \in ConfidenceDicts}

\* the sample response, or an otherwise empty one, with every year and
\* probability input and a confidence that is not a mapping or is the sample's
ScalarPayloads ==
  {DictSet(DictSet(DictSet(base, "year", y), "ai_generated_probability", a),
           "confidence", c) :
     base \in {SamplePayload, NoItems}, y \in YearInputs, a \in AiInputs,
     c \in NonDictConfidence \cup {SamplePayload["confidence"]}}

RawPayloads == MissingPayloads \cup ConfidencePayloads \cup ScalarPayloads

(***************************************************************************)
(* Inputs of a batch: the uploaded files and what the collaborators do.    *)
(***************************************************************************)
\* the name of the k-th uploaded file
FileName(k) == "photo (" \o PyStrOfInt(k) \o ").jpg"

\* every upload of 1..MaxImages files; readable tells whether Image.open
\* accepts the file
Uploads ==
  UNION {{[k \in 1..n |-> [name |-> FileName(k), readable |-> flags[k]]] :
            flags \in [1..n -> BOOLEAN]} : n \in 1..MaxImages}

\* what the vision call can come back with
VisionOutcomes ==
  <<VisionPayload(SamplePayload),
   VisionPayload(NoItems),
   VisionPayload(DictSet(SamplePayload, "location_name",
                         PyStr("Gettysburg, Pennsylvania"))),
   VisionPayload(DictSet(SamplePayload, "location_name", PyInt(42))),
   VisionPayload(DictSet(SamplePayload, "confidence",
                         PyDict([year |-> PyStr("abc")]))),
   VisionPayload(DictSet(DictSet(SamplePayload, "event", PyInt(1945)),
                         "location_name", PyStr(""))),
   VisionError("Request timed out.")>>

(***************************************************************************)
(* State.                                                                  *)
(***************************************************************************)
VARIABLES
  payload,      \* the raw mapping as it was handed to validate_result
  result,       \* the mapping after validate_result worked on it
  raised,       \* whether the last call of validate_result raised
  vstate,       \* "raw", "validated" or "revalidated"
  revalidated   \* what validate_result returns for the validated mapping

validatorVars == <<payload, result, raised, vstate, revalidated>>

VARIABLES
  uploaded_files,  \* the files of the upload widget, in upload order
  images,          \* the decoded images handed to process_multiple_images
  bstate,          \* "idle", "uploaded", "loaded", "processing" or "returned"
  i,               \* the 0-based index of the next image of the loop
  results,         \* the list process_multiple_images builds and returns
  origin,          \* for each entry of results, the image it was made for
  db_calls,        \* the calls of db.save_analysis_result, with what they returned
  rounds           \* for each round of the loop, what the collaborators returned
                   \* (the vision outcome by its place in VisionOutcomes)

batchVars ==
  <<uploaded_files, images, bstate, i, results, origin, db_calls, rounds>>

VARIABLES
  db_env,      \* the environment the DatabaseManager is constructed in
  db_type,     \* DatabaseManager.db_type, "" before the constructor ran
  db_state,    \* "idle", "new" (not constructed yet) or "ready"
  stores,      \* for each backend, the rows of its table in insertion order
  last_call    \* the last call of the facade: its arguments, what the
               \* backend did, the implementation that served it and what
               \* it returned

dbVars == <<db_env, db_type, db_state, stores, last_call>>

VARIABLES
  geo_location,  \* the location_name utils.get_gps_coordinates was called with
  geo_pc,        \* "idle", "called", "attempt", "simplified", "sleep",
                 \* "returned" or "raised"
  geo_attempt,   \* attempt, the loop variable of the retry loop
  geo_trace,     \* the requests sent, what they did and the waits, in order
  geo_out        \* what the function returned

geoVars == <<geo_location, geo_pc, geo_attempt, geo_trace, geo_out>>

vars == <<validatorVars, batchVars, dbVars, geoVars>>

\* no lookup is under way
GeoIdle ==
  /\ geo_location = PyNone
  /\ geo_pc = "idle"
  /\ geo_attempt = 0
  /\ geo_trace = <<>>
  /\ geo_out = PyNone

\* the validator is not under test
ValidatorIdle ==
  /\ payload = NoItems
  /\ result = NoItems
  /\ raised = FALSE
  /\ vstate = "idle"
  /\ revalidated = NoItems

\* the three backends of the facade
Backends == {"supabase", "postgresql", "sqlite"}

\* no call of the facade yet
NoCall ==
  [op |-> "none", net |-> "ok", served_by |-> "", query |-> "", limit |-> 0,
   analysis_id |-> 0, out |-> PyNone]

\* three empty tables
NoStores == [b \in Backends |-> <<>>]

\* no facade is under test
DbIdle ==
  /\ db_env = [supabase_init_ok |-> FALSE, cloud_up |-> FALSE,
               database_url |-> FALSE, psycopg2 |-> FALSE, pg_up |-> FALSE]
  /\ db_type = ""
  /\ db_state = "idle"
  /\ stores = NoStores
  /\ last_call = NoCall

\* no batch is under way
BatchIdle ==
  /\ uploaded_files = <<>>
  /\ images = <<>>
  /\ bstate = "idle"
  /\ i = 0
  /\ results = <<>>
  /\ origin = <<>>
  /\ db_calls = <<>>
  /\ rounds = <<>>

InitValidator ==
  /\ payload \in RawPayloads
  /\ result = payload
  /\ raised = FALSE
  /\ vstate = "raw"
  /\ revalidated = NoItems
  /\ BatchIdle
  /\ DbIdle
  /\ GeoIdle

\* validate_result(result) on the raw payload
Validate ==
  /\ vstate = "raw"
  /\ LET c == validate_result(payload) IN
       /\ result' = c.val
       /\ raised' = c.raised
  /\ vstate' = "validated"
  /\ UNCHANGED <<payload, revalidated>>
  /\ UNCHANGED <<batchVars, dbVars, geoVars>>

\* validate_result on a mapping that validate_result returned
Revalidate ==
  /\ vstate = "validated"
  /\ ~raised
  /\ LET c == validate_result(result) IN
       /\ revalidated' = c.val
       /\ raised' = c.raised
  /\ vstate' = "revalidated"
  /\ UNCHANGED <<payload, result>>
  /\ UNCHANGED <<batchVars, dbVars, geoVars>>

NextValidator == Validate \/ Revalidate

SpecValidator == InitValidator /\ [][NextValidator]_vars

(***************************************************************************)
(* BatchOrchestrator: analyze_images_page and process_multiple_images.     *)
(***************************************************************************)
\* d.get(k)
DictGet(d, k) == IF k \in DOMAIN d THEN d[k] ELSE PyNone

\* result['gps'] = gps_coords, where g is what get_gps_coordinates did
GpsAttached(analysed, g) ==
  [raised |-> g.raised, val |-> DictSet(analysed, "gps", g.val), err |-> g.err]

\* "Get GPS coordinates if location is identified": [raised, val, err]
AttachGps(analysed) ==
  IF PyTruthy(DictGet(analysed, "location_name"))
       /\ analysed["location_name"] # PyStr("Unknown Location")
  THEN GpsAttached(analysed, get_gps_coordinates(analysed["location_name"]))
  ELSE [raised |-> FALSE, val |-> analysed, err |-> ""]

\* "Generate Wikipedia URL"
AttachWikipedia(located) ==
  IF PyTruthy(DictGet(located, "event"))
       /\ located["event"] # PyStr("Unidentified Historical Event")
  THEN DictSet(located, "wikipedia",
               generate_wikipedia_url(located["event"], DictGet(located, "location_name")))
  ELSE located

\* the statements from the model call to the reference link: [raised, val,
\* err], raised when get_gps_coordinates raised
LinkAfter(located) ==
  IF located.raised
  THEN located
  ELSE [raised |-> FALSE, val |-> AttachWikipedia(located.val), err |-> ""]

Enriched(vision) == LinkAfter(AttachGps(analyze_historical_image(vision)))

\* uploaded_files[i].name if i < len(uploaded_files) else f"image_{i+1}"
ImageName(idx, files) ==
  IF idx < Len(files) THEN files[idx + 1].name ELSE "image_" \o PyStrOfInt(idx + 1)

\* the record the except branch of the loop appends
ErrorRecord(idx, err) ==
  DictSet(get_error_response(err), "image_index", PyInt(idx + 1))

\* result['image_index'] = i + 1; result['image_url'] = image_url
Indexed(linked, idx, image_url) ==
  DictSet(DictSet(linked, "image_index", PyInt(idx + 1)), "image_url", image_url)

\* "Save to database" and results.append(result)
SaveAndAppend(idx, files, image_url, indexed, db_id) ==
  [records |-> <<IF PyTruthy(db_id)
                 THEN DictSet(indexed, "database_id", db_id)
                 ELSE indexed>>,
   calls |-> <<[result |-> indexed, image_name |-> ImageName(idx, files),
                image_url |-> image_url, returned |-> db_id]>>]

\* LoopBody whose except branch appends nothing
LoopBody_ErrorNotAppended(idx, files, image_url, enriched, db_id) ==
  IF enriched.raised
  THEN [records |-> <<>>, calls |-> <<>>]
  ELSE SaveAndAppend(idx, files, image_url,
                     Indexed(enriched.val, idx, image_url), db_id)

\* One round of the loop for the image at 0-based index idx.  image_url is
\* what save_image_and_get_url returned (None when there is no file for the
\* image), enriched the outcome of the analysis and enrichment statements,
\* db_id what save_analysis_result returns.  The result holds the records the
\* round appends to results and the calls of save_analysis_result it makes.
LoopBody(idx, files, image_url, enriched, db_id) ==
  IF enriched.raised
  THEN [records |-> <<ErrorRecord(idx, enriched.err)>>, calls |-> <<>>]
  ELSE SaveAndAppend(idx, files, image_url,
                     Indexed(enriched.val, idx, image_url), db_id)

\* what the storage step of the round for index idx can come back with
StoreOutcomes(idx, files) ==
  IF idx < Len(files)
  THEN {save_image_and_get_url(files[idx + 1], idx + 1, upload_ok, local_ok) :
          upload_ok \in BOOLEAN, local_ok \in BOOLEAN}
  ELSE {PyNone}

\* the id a successful save hands out next
NextId(calls) == 1 + Cardinality({k \in 1..Len(calls) : calls[k].returned # PyNone})

\* what save_analysis_result can return: a fresh id, or None
SaveOutcomes(calls) == {PyInt(NextId(calls)), PyNone}

\* the images analyze_images_page decodes: one per readable file, in order
DecodedImages(files) ==
  LET readable == SelectSeq([k \in 1..Len(files) |-> k], LAMBDA k : files[k].readable)
  IN [j \in 1..Len(readable) |-> [file |-> readable[j]]]

InitBatch ==
  /\ ValidatorIdle
  /\ DbIdle
  /\ GeoIdle
  /\ uploaded_files \in Uploads
  /\ images = <<>>
  /\ bstate = "uploaded"
  /\ i = 0
  /\ results = <<>>
  /\ origin = <<>>
  /\ db_calls = <<>>
  /\ rounds = <<>>

\* analyze_images_page opens every uploaded file and keeps those that load
LoadImages ==
  /\ bstate = "uploaded"
  /\ images' = DecodedImages(uploaded_files)
  /\ bstate' = "loaded"
  /\ UNCHANGED <<uploaded_files, i, results, origin, db_calls, rounds>>
  /\ UNCHANGED <<validatorVars, dbVars, geoVars>>

\* the analyze button: process_multiple_images starts with results = []
StartBatch ==
  /\ bstate = "loaded"
  /\ results' = <<>>
  /\ i' = 0
  /\ bstate' = "processing"
  /\ UNCHANGED <<uploaded_files, images, origin, db_calls, rounds>>
  /\ UNCHANGED <<validatorVars, dbVars, geoVars>>

\* the effect of one round on the state
Commit(round) ==
  /\ results' = results \o round.records
  /\ origin' = origin \o [k \in 1..Len(round.records) |-> images[i + 1]]
  /\ db_calls' = db_calls \o round.calls

\* what save_analysis_result returns in a round: nothing when the round
\* ended in the except branch before the call
SaveOutcomesAfter(enriched, calls) ==
  IF enriched.raised THEN {PyNone} ELSE SaveOutcomes(calls)

\* the rounds possible once the analysis and enrichment are done
RoundsWith(vision, enriched, urls) ==
  \E image_url \in urls, db_id \in SaveOutcomesAfter(enriched, db_calls) :
    /\ Commit(LoopBody(i, uploaded_files, image_url, enriched, db_id))
    /\ rounds' = Append(rounds, [vision |-> vision, image_url |-> image_url,
                                  db_id |-> db_id])

\* for every outcome of the vision call, by its place in VisionOutcomes:
\* what analyze_historical_image returns, and what the analysis and
\* enrichment statements make of it
Analyses ==
  [v \in 1..Len(VisionOutcomes) |-> analyze_historical_image(VisionOutcomes[v])]

Enrichments ==
  [v \in 1..Len(VisionOutcomes) |-> Enriched(VisionOutcomes[v])]

\* vision is the place in VisionOutcomes of what the vision call did
RoundsStoring(urls) ==
  \E vision \in 1..Len(VisionOutcomes) :
    RoundsWith(vision, Enrichments[vision], urls)

\* one round of "for i, image in enumerate(images)"
ProcessImage ==
  /\ bstate = "processing"
  /\ i < Len(images)
  /\ RoundsStoring(StoreOutcomes(i, uploaded_files))
  /\ i' = i + 1
  /\ UNCHANGED <<uploaded_files, images, bstate>>
  /\ UNCHANGED <<validatorVars, dbVars, geoVars>>

\* the loop is over: return results
ReturnResults ==
  /\ bstate = "processing"
  /\ i = Len(images)
  /\ bstate' = "returned"
  /\ UNCHANGED <<uploaded_files, images, i, results, origin, db_calls, rounds>>
  /\ UNCHANGED <<validatorVars, dbVars, geoVars>>

NextBatch == LoadImages \/ StartBatch \/ ProcessImage \/ ReturnResults

SpecBatch == InitBatch /\ [][NextBatch]_vars

(***************************************************************************)
(* PersistenceFacade: DatabaseManager of database.py and SupabaseManager   *)
(* of supabase_db.py.  A table is the sequence of its rows in insertion    *)
(* order; stores holds one table per backend.                              *)
(***************************************************************************)
\* the process environments a DatabaseManager can be constructed in:
\* whether SupabaseManager() returns, whether the cloud service answers at
\* that time, whether DATABASE_URL is set, whether psycopg2 was imported and
\* whether psycopg2.connect reaches the server named by DATABASE_URL
Environments ==
  {e \in [supabase_init_ok : BOOLEAN, cloud_up : BOOLEAN, database_url : BOOLEAN,
          psycopg2 : BOOLEAN, pg_up : BOOLEAN] :
     e.pg_up => e.database_url}

\* _detect_database_type trying DATABASE_URL before the cloud backend
detect_database_type_PostgresPreferred(e) ==
  IF e.database_url /\ e.psycopg2
  THEN "postgresql"
  ELSE IF e.supabase_init_ok THEN "supabase" ELSE "sqlite"

\* _detect_database_type
detect_database_type(e) ==
  IF e.supabase_init_ok
  THEN "supabase"
  ELSE IF e.database_url /\ e.psycopg2 THEN "postgresql" ELSE "sqlite"

\* _init_postgresql: the db_type it leaves behind
init_postgresql(e) ==
  IF ~e.psycopg2
  THEN "sqlite"
  ELSE IF e.pg_up THEN "postgresql" ELSE "sqlite"

\* init_database: the db_type after it
init_database(e, detected) ==
  IF detected = "supabase"
  THEN "supabase"
  ELSE IF detected = "postgresql" THEN init_postgresql(e) ELSE "sqlite"

\* DatabaseManager.__init__: the db_type of the constructed object
DatabaseManager(e) == init_database(e, detect_database_type(e))

(***************************************************************************)
(* Rows and the columns the queries read.                                  *)
(***************************************************************************)
\* the INTEGER column year of PostgreSQL and of the cloud table takes an
\* integer or NULL; SQLite tables whatever it is given
IntegerColumnAccepts(v) == v.t \in {"int", "bool", "NoneType"}

\* result.get('confidence', {}) and result.get('wikipedia', {}) followed by
\* .get(...): raises when the value is not a mapping
ExtractRaises(record) ==
  \/ DictGet(record, "confidence").t # "dict" /\ "confidence" \in DOMAIN record
  \/ DictGet(record, "wikipedia").t # "dict" /\ "wikipedia" \in DOMAIN record

\* the row an INSERT adds; id is the key the backend assigns and now the
\* reading of the clock that becomes created_at
RowOf(record, image_name, id, now) ==
  [id |-> id,
   created_at |-> now,
   image_name |-> PyStr(image_name),
   title |-> DictGet(record, "title"),
   event |-> DictGet(record, "event"),
   location_name |-> DictGet(record, "location_name"),
   year |-> DictGet(record, "year"),
   exact_date |-> DictGet(record, "exact_date"),
   ai_generated_probability |-> DictGet(record, "ai_generated_probability"),
   raw_result |-> record]

\* the key the backend assigns to the next row of the table
NextRowId(rows) == Len(rows) + 1

\* the clock reading of the next insert: later than every created_at stored
Now(rows) == Len(rows) + 1

\* the mapping history and search return for a row
RowSummary(row) ==
  PyDict([id |-> PyInt(row.id),
          image_name |-> row.image_name,
          title |-> row.title,
          event |-> row.event,
          location_name |-> row.location_name,
          year |-> row.year,
          exact_date |-> row.exact_date,
          ai_generated_probability |-> row.ai_generated_probability,
          created_at |-> PyInt(row.created_at)])

\* ORDER BY created_at ASC in place of DESC
RECURSIVE OrderByCreatedDesc_Ascending(_)
OrderByCreatedDesc_Ascending(rows) ==
  IF rows = <<>>
  THEN <<>>
  ELSE LET k == CHOOSE k \in 1..Len(rows) :
                  \A j \in 1..Len(rows) : rows[j].created_at >= rows[k].created_at
       IN <<rows[k]>> \o OrderByCreatedDesc_Ascending(
                             SubSeq(rows, 1, k - 1) \o SubSeq(rows, k + 1, Len(rows)))

\* ORDER BY created_at DESC
RECURSIVE OrderByCreatedDesc(_)
OrderByCreatedDesc(rows) ==
  IF rows = <<>>
  THEN <<>>
  ELSE LET k == CHOOSE k \in 1..Len(rows) :
                  \A j \in 1..Len(rows) : rows[j].created_at <= rows[k].created_at
       IN <<rows[k]>> \o OrderByCreatedDesc(SubSeq(rows, 1, k - 1)
                                              \o SubSeq(rows, k + 1, Len(rows)))

\* LIMIT n
Limit(rows, n) == SubSeq(rows, 1, PyMin(n, Len(rows)))

\* the list of mappings a SELECT ... ORDER BY created_at DESC LIMIT n yields
Listing(rows, n) ==
  PyList([k \in 1..Len(Limit(OrderByCreatedDesc(rows), n)) |->
            RowSummary(Limit(OrderByCreatedDesc(rows), n)[k])])

EmptyList == PyList(<<>>)
EmptyDict == PyDict(NoItems)

(***************************************************************************)
(* Pattern matching of the search queries.                                 *)
(***************************************************************************)
\* text[i:] LIKE pattern[j:], places counted from 1: % stands for any run of
\* characters, _ for any one character, and letters match whatever their
\* case
RECURSIVE LikeFrom(_, _, _, _)
LikeFrom(text, m, pattern, j) ==
  IF j > Len(pattern)
  THEN m > Len(text)
  ELSE IF CharAt(pattern, j) = "%"
       THEN \/ LikeFrom(text, m, pattern, j + 1)
            \/ m <= Len(text) /\ LikeFrom(text, m + 1, pattern, j)
       ELSE /\ m <= Len(text)
            /\ \/ CharAt(pattern, j) = "_"
               \/ LowerChar(CharAt(pattern, j)) = LowerChar(CharAt(text, m))
            /\ LikeFrom(text, m + 1, pattern, j + 1)

\* text LIKE pattern
Like(text, pattern) == LikeFrom(text, 1, pattern, 1)

\* f"%{query}%"
SqlPattern(query) == "%" \o query \o "%"

\* f"*{query}*" as the REST API hands it to ILIKE: every * becomes %
RestPattern(query) == ReplaceChar("*" \o query \o "*", "*", "%")

(***************************************************************************)
(* What the callers hand to the facade.                                    *)
(***************************************************************************)
\* the wikipedia attribute of a record whose reference page is the given one
SavedLinks(page) ==
  PyDict([title |-> PyStr("Wikipedia: " \o page),
          search_url |-> PyStr("https://en.wikipedia.org/wiki/Special:Search?search=" \o page),
          direct_url |-> PyStr("https://en.wikipedia.org/wiki/" \o page)])

\* a record as process_multiple_images hands it to save_analysis_result
AnalysisRecord(title, event, location_name, gps, year, probability, wikipedia) ==
  [title |-> PyStr(title),
   prompt |-> PyStr("Black and white photograph of " \o title),
   celebrity |-> PyBool(year = PyInt(1863)),
   celebrity_name |-> IF year = PyInt(1863) THEN PyStr("Abraham Lincoln") ELSE PyNone,
   event |-> PyStr(event),
   location_name |-> PyStr(location_name),
   gps |-> gps,
   year |-> year,
   exact_date |-> PyStr("Unknown"),
   ai_generated_probability |-> PyInt(probability),
   confidence |-> PyDict([year |-> PyInt(95), location |-> PyInt(90),
                          event |-> PyInt(92), exact_date |-> PyInt(80)]),
   wikipedia |-> wikipedia,
   image_index |-> PyInt(1),
   image_url |-> PyStr("local_storage://uploaded_images/photo_1.webp")]

\* the records saved: a located event, an event at a place GeoLookup does
\* not know on a picture that looks generated, a record whose reference
\* link is None, and the error record
SaveInputs ==
  <<AnalysisRecord("Fall of the Berlin Wall", "Fall of the Berlin Wall",
                   "Berlin, Germany",
                   PyList(<<PyFloat(525200), PyFloat(134050)>>), PyInt(1989), 70,
                   SavedLinks("Fall_of_the_Berlin_Wall")),
    AnalysisRecord("Battle of Gettysburg", "Battle of Gettysburg",
                   "Gettysburg, Pennsylvania", PyNone, PyInt(1863), 85,
                   SavedLinks("Battle_of_Gettysburg")),
    AnalysisRecord("Victory Parade", "End of World War II", "Unknown Location",
                   PyNone, PyInt(1945), 10, PyNone),
    AnalysisRecord("Analysis Error", "Error During Analysis", "Unknown", PyNone,
                   PyStr("Unknown"), 0,
                   SavedLinks("Error_During_Analysis_Unknown"))>>

\* the text typed into the search box
SearchQueries == <<"gettysburg", "%", "_", "*">>

\* column LIKE pattern for a column value: NULL matches nothing
ColumnLike(v, pattern) == v.t = "str" /\ Like(v.s, pattern)

\* WHERE title LIKE ? OR event LIKE ? OR location_name LIKE ?
WhereAnyColumn(rows, pattern) ==
  SelectSeq(rows, LAMBDA row : \/ ColumnLike(row.title, pattern)
                               \/ ColumnLike(row.event, pattern)
                               \/ ColumnLike(row.location_name, pattern))

\* the fallback filter of the cloud search: title only
WhereTitle(rows, pattern) ==
  SelectSeq(rows, LAMBDA row : ColumnLike(row.title, pattern))

(***************************************************************************)
(* The three implementations.  net is what the statement or request did:   *)
(* "ok", "status" (the REST API answered with a non-success status),       *)
(* "fallback" (the first search request was refused and the second one     *)
(* answered) or "raises".  Every operation yields what it returns (out),   *)
(* the tables after it and the implementation that served it.              *)
(***************************************************************************)
Served(out, tables, backend) ==
  [out |-> out, tables |-> tables, served_by |-> backend]

Inserted(tables, backend, record, image_name) ==
  Served(PyInt(NextRowId(tables[backend])),
         [tables EXCEPT ![backend] =
            Append(@, RowOf(record, image_name, NextRowId(tables[backend]),
                            Now(tables[backend])))],
         backend)

\* _save_to_sqlite
save_to_sqlite(tables, record, image_name, net) ==
  IF net # "ok" \/ ExtractRaises(record)
  THEN Served(PyNone, tables, "sqlite")
  ELSE Inserted(tables, "sqlite", record, image_name)

\* _save_to_postgresql that turns to SQLite when the INSERT fails
save_to_postgresql_SqliteOnFailure(e, tables, record, image_name, net) ==
  IF net # "ok" \/ ExtractRaises(record) \/ ~IntegerColumnAccepts(DictGet(record, "year"))
  THEN save_to_sqlite(tables, record, image_name, "ok")
  ELSE Inserted(tables, "postgresql", record, image_name)

\* _save_to_postgresql
save_to_postgresql(e, tables, record, image_name, net) ==
  IF ~e.psycopg2
  THEN save_to_sqlite(tables, record, image_name, net)
  ELSE IF net # "ok" \/ ExtractRaises(record)
            \/ ~IntegerColumnAccepts(DictGet(record, "year"))
       THEN Served(PyNone, tables, "postgresql")
       ELSE Inserted(tables, "postgresql", record, image_name)

\* the columns only the cloud table has
CloudColumns(record, image_url) ==
  [image_url |-> image_url,
   prompt |-> DictGet(record, "prompt"),
   celebrity |-> IF "celebrity" \in DOMAIN record THEN record["celebrity"]
                 ELSE PyBool(FALSE),
   celebrity_name |-> DictGet(record, "celebrity_name")]

\* SupabaseManager.save_analysis_result that reads no id from the answer
supabase_save_analysis_result_IdNotRead(tables, record, image_name, image_url, net) ==
  IF ExtractRaises(record) \/ net # "ok"
       \/ ~IntegerColumnAccepts(DictGet(record, "year"))
  THEN Served(PyNone, tables, "supabase")
  ELSE Served(PyNone,
              [tables EXCEPT !["supabase"] =
                 Append(@, RowOf(record, image_name, NextRowId(tables["supabase"]),
                                 Now(tables["supabase"]))
                             @@ CloudColumns(record, image_url))],
              "supabase")

\* SupabaseManager.save_analysis_result
supabase_save_analysis_result(tables, record, image_name, image_url, net) ==
  IF ExtractRaises(record) \/ net # "ok"
       \/ ~IntegerColumnAccepts(DictGet(record, "year"))
  THEN Served(PyNone, tables, "supabase")
  ELSE Served(PyInt(NextRowId(tables["supabase"])),
              [tables EXCEPT !["supabase"] =
                 Append(@, RowOf(record, image_name, NextRowId(tables["supabase"]),
                                 Now(tables["supabase"]))
                             @@ CloudColumns(record, image_url))],
              "supabase")

\* DatabaseManager.save_analysis_result
save_analysis_result(e, type, tables, record, image_name, image_url, net) ==
  IF type = "supabase"
  THEN supabase_save_analysis_result(tables, record, image_name, image_url, net)
  ELSE IF type = "postgresql"
       THEN save_to_postgresql(e, tables, record, image_name, net)
       ELSE save_to_sqlite(tables, record, image_name, net)

\* _get_history_sqlite
get_history_sqlite(tables, limit, net) ==
  Served(IF net = "ok" THEN Listing(tables["sqlite"], limit) ELSE EmptyList,
         tables, "sqlite")

\* _get_history_postgresql
get_history_postgresql(e, tables, limit, net) ==
  IF ~e.psycopg2
  THEN get_history_sqlite(tables, limit, net)
  ELSE Served(IF net = "ok" THEN Listing(tables["postgresql"], limit) ELSE EmptyList,
              tables, "postgresql")

\* SupabaseManager.get_analysis_history
supabase_get_analysis_history(tables, limit, net) ==
  Served(IF net = "ok" THEN Listing(tables["supabase"], limit) ELSE EmptyList,
         tables, "supabase")

\* DatabaseManager.get_analysis_history
get_analysis_history(e, type, tables, limit, net) ==
  IF type = "supabase"
  THEN supabase_get_analysis_history(tables, limit, net)
  ELSE IF type = "postgresql"
       THEN get_history_postgresql(e, tables, limit, net)
       ELSE get_history_sqlite(tables, limit, net)

\* _search_sqlite
search_sqlite(tables, query, limit, net) ==
  Served(IF net = "ok"
         THEN Listing(WhereAnyColumn(tables["sqlite"], SqlPattern(query)), limit)
         ELSE EmptyList,
         tables, "sqlite")

\* _search_postgresql
search_postgresql(e, tables, query, limit, net) ==
  IF ~e.psycopg2
  THEN search_sqlite(tables, query, limit, net)
  ELSE Served(IF net = "ok"
              THEN Listing(WhereAnyColumn(tables["postgresql"], SqlPattern(query)),
                           limit)
              ELSE EmptyList,
              tables, "postgresql")

\* SupabaseManager.search_analysis_results
supabase_search_analysis_results(tables, query, limit, net) ==
  Served(IF net = "ok"
         THEN Listing(WhereAnyColumn(tables["supabase"], RestPattern(query)), limit)
         ELSE IF net = "fallback"
              THEN Listing(WhereTitle(tables["supabase"], RestPattern(query)), limit)
              ELSE EmptyList,
         tables, "supabase")

\* DatabaseManager.search_analysis_results
search_analysis_results(e, type, tables, query, limit, net) ==
  IF type = "supabase"
  THEN supabase_search_analysis_results(tables, query, limit, net)
  ELSE IF type = "postgresql"
       THEN search_postgresql(e, tables, query, limit, net)
       ELSE search_sqlite(tables, query, limit, net)

\* json.dumps(document): the text that holds the document.  The documents
\* saved have text keys only, so the text carries all of them.
JsonText(document) == [t |-> "json_text", n |-> 0, s |-> "", d |-> document, l |-> <<>>]

\* json.loads(v): [raised, val]; anything but text raises TypeError
json_loads(v) ==
  IF v.t = "json_text"
  THEN [raised |-> FALSE, val |-> PyDict(v.d)]
  ELSE [raised |-> TRUE, val |-> PyNone]

\* the raw_result column of the row with the id as the driver or the REST
\* API hands it over, None when there is no such row: the text of a TEXT
\* column, the parsed document of a jsonb column
RawResultOf(rows, analysis_id, parsed) ==
  IF \E k \in 1..Len(rows) : rows[k].id = analysis_id
  THEN LET document == rows[CHOOSE k \in 1..Len(rows) : rows[k].id = analysis_id].raw_result
       IN IF parsed THEN PyDict(document) ELSE JsonText(document)
  ELSE PyNone

\* "if row: return json.loads(row[0])" and "return None", with the except
\* branch around them
LoadedOrNone(column) ==
  IF column = PyNone \/ json_loads(column).raised
  THEN PyNone
  ELSE json_loads(column).val

\* _get_by_id_sqlite
get_by_id_sqlite(tables, analysis_id, net) ==
  Served(IF net = "ok"
         THEN LoadedOrNone(RawResultOf(tables["sqlite"], analysis_id, FALSE))
         ELSE PyNone,
         tables, "sqlite")

\* _get_by_id_postgresql: psycopg2 hands a jsonb column over parsed
get_by_id_postgresql(e, tables, analysis_id, net) ==
  IF ~e.psycopg2
  THEN get_by_id_sqlite(tables, analysis_id, net)
  ELSE Served(IF net = "ok"
              THEN LoadedOrNone(RawResultOf(tables["postgresql"], analysis_id, TRUE))
              ELSE PyNone,
              tables, "postgresql")

\* SupabaseManager.get_analysis_by_id: data[0].get('raw_result')
supabase_get_analysis_by_id(tables, analysis_id, net) ==
  Served(IF net = "ok" THEN RawResultOf(tables["supabase"], analysis_id, TRUE) ELSE PyNone,
         tables, "supabase")

\* DatabaseManager.get_analysis_by_id
get_analysis_by_id(e, type, tables, analysis_id, net) ==
  IF type = "supabase"
  THEN supabase_get_analysis_by_id(tables, analysis_id, net)
  ELSE IF type = "postgresql"
       THEN get_by_id_postgresql(e, tables, analysis_id, net)
       ELSE get_by_id_sqlite(tables, analysis_id, net)

\* the years of the rows whose year IS NOT NULL
YearsPresent(rows) == {rows[k].year : k \in 1..Len(rows)} \ {PyNone}

\* the years the cloud statistics count: "if year:"
YearsCounted(rows) == {y \in YearsPresent(rows) : PyTruthy(y)}

\* a sorts before b under ORDER BY year DESC: a text sorts above every
\* integer
YearAbove(a, b) == IF a.t = "str" THEN b.t # "str" ELSE b.t # "str" /\ a.n > b.n

\* ORDER BY year DESC LIMIT 10
TopYears(years) == {y \in years : Cardinality({z \in years : YearAbove(z, y)}) < 10}

\* dict(by_year): for each of the years kept, the number of rows with it
RecordsByYear(rows, years) ==
  [y \in TopYears(years) |-> Cardinality({k \in 1..Len(rows) : rows[k].year = y})]

\* COUNT(*) ... WHERE ai_generated_probability > 70
LikelyAiGenerated(rows) ==
  Cardinality({k \in 1..Len(rows) :
                 /\ rows[k].ai_generated_probability.t = "int"
                 /\ rows[k].ai_generated_probability.n > 70})

\* the mapping the statistics functions return
StatsSummary(label, total, by_year, likely) ==
  PyDict([database_type |-> PyStr(label),
          total_records |-> PyInt(total),
          records_by_year |-> PyDict(by_year),
          likely_ai_generated |-> PyInt(likely)])

\* _get_stats_sqlite under the label of PostgreSQL
get_stats_sqlite_PostgresLabel(tables, net) ==
  Served(IF net = "ok"
         THEN StatsSummary("PostgreSQL", Len(tables["sqlite"]),
                           RecordsByYear(tables["sqlite"], YearsPresent(tables["sqlite"])),
                           LikelyAiGenerated(tables["sqlite"]))
         ELSE EmptyDict,
         tables, "sqlite")

\* _get_stats_sqlite
get_stats_sqlite(tables, net) ==
  Served(IF net = "ok"
         THEN StatsSummary("SQLite", Len(tables["sqlite"]),
                           RecordsByYear(tables["sqlite"], YearsPresent(tables["sqlite"])),
                           LikelyAiGenerated(tables["sqlite"]))
         ELSE EmptyDict,
         tables, "sqlite")

\* _get_stats_postgresql
get_stats_postgresql(e, tables, net) ==
  IF ~e.psycopg2
  THEN get_stats_sqlite(tables, net)
  ELSE Served(IF net = "ok"
              THEN StatsSummary("PostgreSQL", Len(tables["postgresql"]),
                                RecordsByYear(tables["postgresql"],
                                              YearsPresent(tables["postgresql"])),
                                LikelyAiGenerated(tables["postgresql"]))
              ELSE EmptyDict,
              tables, "postgresql")

\* SupabaseManager.get_database_stats: the counts stay at their initial
\* values when the requests are refused, and the except branch returns the
\* same zeroed summary
supabase_get_database_stats(tables, net) ==
  Served(IF net = "ok"
         THEN StatsSummary("Supabase", Len(tables["supabase"]),
                           RecordsByYear(tables["supabase"],
                                         YearsCounted(tables["supabase"])),
                           LikelyAiGenerated(tables["supabase"]))
         ELSE StatsSummary("Supabase", 0, NoItems, 0),
         tables, "supabase")

\* DatabaseManager.get_database_stats
get_database_stats(e, type, tables, net) ==
  IF type = "supabase"
  THEN supabase_get_database_stats(tables, net)
  ELSE IF type = "postgresql"
       THEN get_stats_postgresql(e, tables, net)
       ELSE get_stats_sqlite(tables, net)

(***************************************************************************)
(* The facade as a state machine: one DatabaseManager is constructed, then *)
(* the pages call it in any order.                                         *)
(***************************************************************************)
\* what a statement or request of the backend can do
Nets(type, op) ==
  IF type = "supabase"
  THEN IF op = "search"
       THEN {"ok", "fallback", "status", "raises"}
       ELSE {"ok", "status", "raises"}
  ELSE {"ok", "raises"}

InitDb ==
  /\ ValidatorIdle
  /\ BatchIdle
  /\ GeoIdle
  /\ db_env \in Environments
  /\ db_type = ""
  /\ db_state = "new"
  /\ stores = NoStores
  /\ last_call = NoCall

\* get_database() of app.py: DatabaseManager()
Construct ==
  /\ db_state = "new"
  /\ db_type' = DatabaseManager(db_env)
  /\ db_state' = "ready"
  /\ UNCHANGED <<db_env, stores, last_call>>
  /\ UNCHANGED <<validatorVars, batchVars, geoVars>>

\* the state after a call that did what served says: the page holds what
\* the call returned
Called(op, net, query, limit, analysis_id, served) ==
  /\ stores' = served.tables
  /\ last_call' = [op |-> op, net |-> net, served_by |-> served.served_by,
                   query |-> query, limit |-> limit, analysis_id |-> analysis_id,
                   out |-> served.out]
  /\ db_state' = "returned"
  /\ UNCHANGED <<db_env, db_type>>
  /\ UNCHANGED <<validatorVars, batchVars, geoVars>>

\* db.save_analysis_result(result, image_name, image_url)
Save ==
  /\ db_state = "ready"
  /\ Len(stores[db_type]) < MaxRows
  /\ \E v \in 1..Len(SaveInputs), net \in Nets(db_type, "save") :
       Called("save", net, "", 0, 0,
              save_analysis_result(db_env, db_type, stores, SaveInputs[v], FileName(1),
                                   SaveInputs[v]["image_url"], net))

\* db.get_analysis_history(limit)
History ==
  /\ db_state = "ready"
  /\ \E limit \in 1..MaxLimit, net \in Nets(db_type, "history") :
       Called("history", net, "", limit, 0,
              get_analysis_history(db_env, db_type, stores, limit, net))

\* db.search_analysis_results(query, limit)
Search ==
  /\ db_state = "ready"
  /\ \E q \in 1..Len(SearchQueries), limit \in 1..MaxLimit,
        net \in Nets(db_type, "search") :
       Called("search", net, SearchQueries[q], limit, 0,
              search_analysis_results(db_env, db_type, stores, SearchQueries[q],
                                      limit, net))

\* db.get_analysis_by_id(analysis_id)
GetById ==
  /\ db_state = "ready"
  /\ \E analysis_id \in 1..(MaxRows + 1), net \in Nets(db_type, "get_by_id") :
       Called("get_by_id", net, "", 0, analysis_id,
              get_analysis_by_id(db_env, db_type, stores, analysis_id, net))

\* db.get_database_stats()
Stats ==
  /\ db_state = "ready"
  /\ \E net \in Nets(db_type, "stats") :
       Called("stats", net, "", 0, 0,
              get_database_stats(db_env, db_type, stores, net))

\* the script run that made the call ends; the cached DatabaseManager
\* waits for the next one
Rerun ==
  /\ db_state = "returned"
  /\ db_state' = "ready"
  /\ last_call' = NoCall
  /\ UNCHANGED <<db_env, db_type, stores>>
  /\ UNCHANGED <<validatorVars, batchVars, geoVars>>

NextDb == Construct \/ Save \/ History \/ Search \/ GetById \/ Stats \/ Rerun

SpecDb == InitDb /\ [][NextDb]_vars

(***************************************************************************)
(* The statistics page over an archive that earlier sessions filled: the   *)
(* tables hold a row for each of at least ten distinct years, so that      *)
(* LIMIT 10 has something to cut.                                          *)
(***************************************************************************)
\* the years of the archive
ArchiveYears == (2024 - MaxYears + 1)..2024

\* the record of a photograph of the given year; the probabilities lie on
\* both sides of 70 and one is 70
ArchiveRecord(y) ==
  AnalysisRecord("Archive photograph", "Street scene", "Berlin, Germany", PyNone,
                 PyInt(y), 70 + y - 2020, SavedLinks("Berlin"))

\* the tables after the records of the years were saved, oldest first
RECURSIVE ArchiveOf(_, _, _)
ArchiveOf(e, type, years) ==
  IF years = {}
  THEN NoStores
  ELSE LET y == CHOOSE y \in years : \A z \in years : z <= y IN
         save_analysis_result(e, type, ArchiveOf(e, type, years \ {y}),
                              ArchiveRecord(y), FileName(1),
                              ArchiveRecord(y)["image_url"], "ok").tables

\* the archives: ten years or more, then a second photograph of the latest
\* year or not, then the error record or not
Archives(e, type) ==
  {LET once == ArchiveOf(e, type, years)
       twice == IF again
                THEN save_analysis_result(e, type, once, ArchiveRecord(2024),
                                          FileName(1),
                                          ArchiveRecord(2024)["image_url"],
                                          "ok").tables
                ELSE once
   IN IF failed
      THEN save_analysis_result(e, type, twice, SaveInputs[4], FileName(1),
                                SaveInputs[4]["image_url"], "ok").tables
      ELSE twice :
     years \in {ys \in SUBSET ArchiveYears : Cardinality(ys) >= 10},
     again \in BOOLEAN, failed \in BOOLEAN}

InitStats ==
  /\ ValidatorIdle
  /\ BatchIdle
  /\ GeoIdle
  /\ db_env \in Environments
  /\ db_type = DatabaseManager(db_env)
  /\ db_state = "ready"
  /\ stores \in Archives(db_env, db_type)
  /\ last_call = NoCall

NextStats == Stats \/ Rerun

SpecStats == InitStats /\ [][NextStats]_vars

(***************************************************************************)
(* get_gps_coordinates of utils.py: the geocoding service is asked for the *)
(* location, a second time under a simplified name when it knows none, and *)
(* again after a timeout.  Each request and each wait is a step.           *)
(***************************************************************************)
\* s.replace(old, '') for a non-empty old
RECURSIVE PyRemove(_, _)
PyRemove(s, old) ==
  IF Len(s) < Len(old)
  THEN s
  ELSE IF StartsWith(s, old)
       THEN PyRemove(SubSeq(s, Len(old) + 1, Len(s)), old)
       ELSE CharAt(s, 1) \o PyRemove(SubSeq(s, 2, Len(s)), old)

words_to_remove ==
  <<"near", "around", "vicinity of", "area of", "region of", "front of",
    "outside", "inside", "at the", "in the">>

\* the loop over words_to_remove from the k-th word on
RECURSIVE RemoveWords(_, _)
RemoveWords(s, k) ==
  IF k > Len(words_to_remove)
  THEN s
  ELSE RemoveWords(PyRemove(s, words_to_remove[k]), k + 1)

\* the characters of s before the first whitespace
RECURSIVE FirstWord(_)
FirstWord(s) ==
  IF Len(s) = 0 \/ CharAt(s, 1) \in Whitespace
  THEN ""
  ELSE CharAt(s, 1) \o FirstWord(SubSeq(s, 2, Len(s)))

\* ' '.join(s.split())
RECURSIVE JoinSplit(_)
JoinSplit(s) ==
  LET t == LStrip(s)
      w == FirstWord(t)
      rest == LStrip(SubSeq(t, Len(w) + 1, Len(t)))
  IN IF Len(t) = 0 THEN ""
     ELSE IF Len(rest) = 0 THEN w
     ELSE w \o " " \o JoinSplit(rest)

\* s.split(c)[-1]
RECURSIVE AfterLast(_, _)
AfterLast(s, c) ==
  IF Len(s) = 0 \/ CharAt(s, Len(s)) = c
  THEN ""
  ELSE AfterLast(SubSeq(s, 1, Len(s) - 1), c) \o CharAt(s, Len(s))

\* the upper-case letter of a lower-case ASCII letter
UpperChar(c) ==
  IF \E u \in DOMAIN LowerOf : LowerOf[u] = c
  THEN CHOOSE u \in DOMAIN LowerOf : LowerOf[u] = c
  ELSE c

\* s.title() from the first character of s on; cased tells whether the
\* character before it is a letter
RECURSIVE PyTitle(_, _)
PyTitle(s, cased) ==
  IF Len(s) = 0
  THEN ""
  ELSE LET c == CharAt(s, 1) IN
       (IF cased THEN LowerChar(c) ELSE UpperChar(c))
         \o PyTitle(SubSeq(s, 2, Len(s)), UpperChar(c) \in DOMAIN LowerOf)

\* simplify_location_name(location_name) for a non-empty text
simplify_location_name(name) ==
  LET simplified == JoinSplit(RemoveWords(PyLower(name), 1)) IN
    IF Contains(simplified, ",")
    THEN RStrip(LStrip(BeforeFirst(simplified, ","))) \o ", "
           \o RStrip(LStrip(AfterLast(simplified, ",")))
    ELSE PyTitle(simplified, FALSE)

\* round(x, 4) of a coordinate given in units of 1/100000 that is not
\* half-way between two multiples of 1/10000
Round4(x) == (x + 5) \div 10

\* [round(location.latitude, 4), round(location.longitude, 4)]
Coordinates(place) == PyList(<<PyFloat(Round4(place[1])), PyFloat(Round4(place[2]))>>)

\* the place the service answers with when it knows the name, in units of
\* 1/100000 of a degree
Place == <<5251704, 1338886>>

max_retries == 3

\* what a request can do: answer with a place, answer with nothing, time
\* out, fail with a service error, or fail with any other exception
GeocodeOutcomes == {"found", "none", "timeout", "service_error", "error"}

\* the values the function is called with: no name, the placeholders, a
\* name that is its own simplification, names that are not, and a value
\* that is no text
GeoLocations ==
  {PyNone, PyStr(""), PyStr("Unknown Location"), PyStr("Berlin"),
   PyStr("near Berlin"), PyStr("Rome, Lazio, Italy"),
   PyInt(1863)}

InitGeo ==
  /\ ValidatorIdle
  /\ BatchIdle
  /\ DbIdle
  /\ geo_location \in GeoLocations
  /\ geo_pc = "called"
  /\ geo_attempt = 0
  /\ geo_trace = <<>>
  /\ geo_out = PyNone

\* the function returns the value
GeoReturn(value) ==
  /\ geo_pc' = "returned"
  /\ geo_out' = value
  /\ UNCHANGED <<geo_location, geo_attempt>>

\* the position after the handler of GeocoderTimedOut that waits one time
\* more than the loop has turns
AfterTimeout_OneMore(attempt) ==
  IF attempt < max_retries THEN "sleep" ELSE "returned"

\* the position after the handler of GeocoderTimedOut: the wait before the
\* next turn of the loop, or the return after the break
AfterTimeout(attempt) ==
  IF attempt < max_retries - 1 THEN "sleep" ELSE "returned"

\* what follows a request: answered tells what it did, full whether it was
\* the request for the name as given, after which a name that differs from
\* its simplification is asked for once more
AfterRequest(answered, full) ==
  CASE answered = "found" -> GeoReturn(Coordinates(Place))
    [] answered = "none" ->
         IF full /\ simplify_location_name(geo_location.s) # geo_location.s
         THEN /\ geo_pc' = "simplified"
              /\ UNCHANGED <<geo_location, geo_attempt, geo_out>>
         ELSE GeoReturn(PyNone)
    [] answered = "timeout" ->
         /\ geo_pc' = AfterTimeout(geo_attempt)
         /\ UNCHANGED <<geo_location, geo_attempt, geo_out>>
    [] answered \in {"service_error", "error"} -> GeoReturn(PyNone)

\* the guard before the try: a value without lower() raises AttributeError
GeoCall ==
  /\ geo_pc = "called"
  /\ IF ~PyTruthy(geo_location)
     THEN geo_pc' = "returned"
     ELSE IF geo_location.t # "str"
          THEN geo_pc' = "raised"
          ELSE IF PyLower(geo_location.s) \in {"unknown", "unknown location"}
               THEN geo_pc' = "returned"
               ELSE geo_pc' = "attempt"
  /\ UNCHANGED <<geo_location, geo_attempt, geo_trace, geo_out>>
  /\ UNCHANGED <<validatorVars, batchVars, dbVars>>

\* geolocator.geocode(location_name, timeout=10)
Geocode ==
  /\ geo_pc = "attempt"
  /\ \E answered \in GeocodeOutcomes :
       /\ geo_trace' = geo_trace \o <<"geocode", answered>>
       /\ AfterRequest(answered, TRUE)
  /\ UNCHANGED <<validatorVars, batchVars, dbVars>>

\* geolocator.geocode(simplified_name, timeout=10)
GeocodeSimplified ==
  /\ geo_pc = "simplified"
  /\ \E answered \in GeocodeOutcomes :
       /\ geo_trace' = geo_trace \o <<"geocode_simplified", answered>>
       /\ AfterRequest(answered, FALSE)
  /\ UNCHANGED <<validatorVars, batchVars, dbVars>>

\* time.sleep(1); continue
Sleep ==
  /\ geo_pc = "sleep"
  /\ geo_trace' = Append(geo_trace, "sleep")
  /\ geo_attempt' = geo_attempt + 1
  /\ geo_pc' = "attempt"
  /\ UNCHANGED <<geo_location, geo_out>>
  /\ UNCHANGED <<validatorVars, batchVars, dbVars>>

NextGeo == GeoCall \/ Geocode \/ GeocodeSimplified \/ Sleep

SpecGeo == InitGeo /\ [][NextGeo]_vars

\* the interpreter runs the next statement of the function: every request
\* ends within its timeout and every wait after a second
FairGeo == SpecGeo /\ WF_vars(NextGeo)

(***************************************************************************)
(* Properties of the validator, checked under SpecValidator.               *)
(***************************************************************************)
\* the first call of validate_result has returned (it did not raise)
Returned == vstate \in {"validated", "revalidated"} /\ ~raised

Clamp(n, lo, hi) == IF n < lo THEN lo ELSE IF n > hi THEN hi ELSE n

\* C1: whatever subset of the eleven required keys the payload lacks, the
\* returned mapping has all eleven keys, and each key the payload lacked
\* holds its fixed default: title "Historical Event", event "Unidentified
\* Historical Event", location_name "Unknown Location", year "Unknown",
\* exact_date "Unknown", ai_generated_probability 0, celebrity false,
\* celebrity_name null (and the fixed description and prompt texts).
C1_RequiredFieldsDefaulted ==
  (vstate = "validated" /\ ~raised) =>
    /\ {"title", "event", "description", "location_name", "year", "exact_date",
        "confidence", "ai_generated_probability", "prompt", "celebrity",
        "celebrity_name"} \subseteq DOMAIN result
    /\ "title" \notin DOMAIN payload => result["title"] = PyStr("Historical Event")
    /\ "event" \notin DOMAIN payload =>
         result["event"] = PyStr("Unidentified Historical Event")
    /\ "location_name" \notin DOMAIN payload =>
         result["location_name"] = PyStr("Unknown Location")
    /\ "year" \notin DOMAIN payload => result["year"] = PyStr("Unknown")
    /\ "exact_date" \notin DOMAIN payload => result["exact_date"] = PyStr("Unknown")
    /\ "ai_generated_probability" \notin DOMAIN payload =>
         result["ai_generated_probability"] = PyInt(0)
    /\ "celebrity" \notin DOMAIN payload => result["celebrity"] = PyBool(FALSE)
    /\ "celebrity_name" \notin DOMAIN payload => result["celebrity_name"] = PyNone
    /\ "description" \notin DOMAIN payload =>
         result["description"] =
           PyStr("Unable to determine specific historical event from available evidence.")
    /\ "prompt" \notin DOMAIN payload =>
         result["prompt"] =
           PyStr("Historical photograph with unidentified subjects and context")

\* C1 witness: the empty mapping has been validated
C1_Witness ==
  /\ vstate = "validated" /\ ~raised
  /\ DOMAIN payload = {}
  /\ result["title"] = PyStr("Historical Event")

\* C2 (as claimed): a payload without a confidence key is returned with
\* confidence {year: 50, location: 50, event: 50, exact_date: 0}.
C2_AbsentConfidenceDefault ==
  (vstate = "validated" /\ ~raised /\ "confidence" \notin DOMAIN payload) =>
    result["confidence"] =
      PyDict([year |-> PyInt(50), location |-> PyInt(50),
              event |-> PyInt(50), exact_date |-> PyInt(0)])

\* C3 (as claimed): when confidence is a mapping, each score key it lacks is
\* filled with 50 for year, location and event and with 0 for exact_date.
C3_MissingScoreDefault ==
  (vstate = "validated" /\ ~raised /\ "confidence" \in DOMAIN payload
     /\ payload["confidence"].t = "dict") =>
    \A k \in {"year", "location", "event", "exact_date"} :
      k \notin DOMAIN payload["confidence"].d =>
        result["confidence"].d[k] = PyInt(IF k = "exact_date" THEN 0 ELSE 50)

\* C4: an integer sub-score s given under year, location, event or
\* exact_date is returned as clamp(s, 0, 100), and every confidence score of
\* a returned mapping is an integer in [0, 100].
C4_ScoresClamped ==
  Returned =>
    /\ result["confidence"].t = "dict"
    /\ \A k \in {"year", "location", "event", "exact_date"} :
         /\ k \in DOMAIN result["confidence"].d
         /\ result["confidence"].d[k].t = "int"
         /\ result["confidence"].d[k].n \in 0..100
         /\ ("confidence" \in DOMAIN payload /\ payload["confidence"].t = "dict"
               /\ k \in DOMAIN payload["confidence"].d
               /\ payload["confidence"].d[k].t = "int") =>
              result["confidence"].d[k] =
                PyInt(Clamp(payload["confidence"].d[k].n, 0, 100))

\* C4 witness: a sub-score above 100 and one below 0 have been clamped
C4_Witness ==
  /\ vstate = "validated" /\ ~raised
  /\ "confidence" \in DOMAIN payload /\ payload["confidence"].t = "dict"
  /\ DOMAIN payload["confidence"].d = {"year", "location", "event", "exact_date"}
  /\ payload["confidence"].d["year"] = PyInt(101)
  /\ payload["confidence"].d["event"] = PyInt(0 - 1)
  /\ result["confidence"].d["year"] = PyInt(100)
  /\ result["confidence"].d["event"] = PyInt(0)

\* C5: a raw year that int() turns into y with 1800 <= y <= 2024 is returned
\* as the integer y; one that int() turns into an integer outside the range,
\* or that int() rejects, is returned as "Unknown".  A returned year is
\* always "Unknown" or an integer in [1800, 2024].
C5_YearNormalized ==
  Returned =>
    /\ \/ result["year"] = PyStr("Unknown")
       \/ result["year"].t = "int" /\ result["year"].n \in 1800..2024
    /\ "year" \in DOMAIN payload =>
         LET c == PyIntOf(payload["year"]) IN
           result["year"] = IF c.ok /\ c.n >= 1800 /\ c.n <= 2024
                            THEN PyInt(c.n)
                            ELSE PyStr("Unknown")
    /\ \A y \in {1800, 1945, 2024} :
         ("year" \in DOMAIN payload /\ payload["year"] = PyInt(y)) =>
           result["year"] = PyInt(y)
    /\ \A y \in {1776, 1799, 2025} :
         ("year" \in DOMAIN payload /\ payload["year"] = PyInt(y)) =>
           result["year"] = PyStr("Unknown")
    /\ ("year" \in DOMAIN payload /\ payload["year"] = PyStr("1945")) =>
         result["year"] = PyInt(1945)
    /\ ("year" \in DOMAIN payload /\ payload["year"] \in {PyStr("c. 1945"), PyNone}) =>
         result["year"] = PyStr("Unknown")

\* C5 witness: the text "1945" came back as the integer 1945
C5_Witness ==
  /\ vstate = "validated" /\ ~raised
  /\ "year" \in DOMAIN payload /\ payload["year"] = PyStr("1945")
  /\ result["year"] = PyInt(1945)

\* C6: a raw ai_generated_probability that int() turns into p is returned
\* as clamp(p, 0, 100); one that int() rejects is returned as 0.
C6_AiProbabilityNormalized ==
  Returned =>
    /\ result["ai_generated_probability"].t = "int"
    /\ result["ai_generated_probability"].n \in 0..100
    /\ "ai_generated_probability" \in DOMAIN payload =>
         LET c == PyIntOf(payload["ai_generated_probability"]) IN
           result["ai_generated_probability"] =
             IF c.ok THEN PyInt(Clamp(c.n, 0, 100)) ELSE PyInt(0)
    /\ ("ai_generated_probability" \in DOMAIN payload
          /\ payload["ai_generated_probability"] = PyInt(101)) =>
         result["ai_generated_probability"] = PyInt(100)
    /\ ("ai_generated_probability" \in DOMAIN payload
          /\ payload["ai_generated_probability"] \in {PyInt(0 - 1), PyStr("-5")}) =>
         result["ai_generated_probability"] = PyInt(0)
    /\ ("ai_generated_probability" \in DOMAIN payload
          /\ payload["ai_generated_probability"] \in {PyStr("high"), PyNone}) =>
         result["ai_generated_probability"] = PyInt(0)

\* C6 witness: a non-numeric probability came back as 0 next to a
\* probability above 100 that came back as 100
C6_Witness ==
  /\ vstate = "validated" /\ ~raised
  /\ "ai_generated_probability" \in DOMAIN payload
  /\ payload["ai_generated_probability"] = PyStr("150")
  /\ result["ai_generated_probability"] = PyInt(100)

\* C7 (as claimed): validate_result never raises, whatever the mapping; a
\* sub-score that int() rejects is caught inside the validator.
C7_NeverRaises == vstate = "validated" => ~raised

\* C8: validate_result is idempotent: applied to a mapping it returned, it
\* returns again, and returns that mapping unchanged, field for field.
C8_Idempotent ==
  vstate = "revalidated" => (~raised /\ revalidated = result)

\* C8 witness: a payload that the first call changed has been validated twice
C8_Witness ==
  /\ vstate = "revalidated" /\ ~raised
  /\ result # payload
  /\ "year" \in DOMAIN payload /\ payload["year"] = PyStr("1776")
  /\ result["year"] = PyStr("Unknown")
  /\ revalidated["year"] = PyStr("Unknown")

\* C9 (as claimed): a payload without ai_analysis, extracted_text or
\* visual_elements is returned with that key present.
C9_OptionalFieldsDefaulted ==
  (vstate = "validated" /\ ~raised) =>
    {"ai_analysis", "extracted_text", "visual_elements"} \subseteq DOMAIN result

(***************************************************************************)
(* Properties of the batch loop, checked under SpecBatch.                  *)
(***************************************************************************)
\* C10: whatever fails along the way, process_multiple_images returns one
\* record per input image, in input order: the k-th record (counting from 1)
\* was made for the k-th image and carries image_index = k.
C10_OneRecordPerImage ==
  /\ bstate = "processing" => Len(results) = i
  /\ bstate = "returned" =>
       /\ Len(results) = Len(images)
       /\ Len(origin) = Len(images)
       /\ \A k \in 1..Len(results) :
            /\ k <= Len(origin) /\ k <= Len(images) /\ origin[k] = images[k]
            /\ "image_index" \in DOMAIN results[k]
            /\ results[k]["image_index"] = PyInt(k)

\* C10 witness: a batch of two images has returned in which the first round
\* ended in the except branch and the second lost both storage and save
C10_Witness ==
  /\ bstate = "returned"
  /\ Len(images) = 2
  /\ Len(results) = 2
  /\ results[1]["title"] = PyStr("Analysis Error")
  /\ "image_url" \notin DOMAIN results[1]
  /\ "image_url" \in DOMAIN results[2]
  /\ results[2]["image_url"] = PyNone
  /\ "database_id" \notin DOMAIN results[2]
  /\ results[2]["image_index"] = PyInt(2)

\* the record the round with the logged outcomes appends for the image at
\* 0-based index idx
RecordOfRound(idx, files, round) ==
  LoopBody(idx, files, round.image_url, Enrichments[round.vision],
           round.db_id).records

\* the four confidence scores of the error record
ZeroConfidence ==
  PyDict([year |-> PyInt(0), location |-> PyInt(0),
          event |-> PyInt(0), exact_date |-> PyInt(0)])

\* what the vision call did in the round with the logged outcomes
VisionOf(round) == VisionOutcomes[round.vision]

\* for every outcome of the vision call: whether the description
\* analyze_historical_image returns for it is a non-empty text that contains
\* the message of the failure
ReasonDescribed ==
  [v \in 1..Len(VisionOutcomes) |->
     /\ Analyses[v]["description"].t = "str"
     /\ Analyses[v]["description"].s # ""
     /\ VisionOutcomes[v].message # ""
     /\ Contains(Analyses[v]["description"].s, VisionOutcomes[v].message)]

\* record is the record of a round whose vision call failed, v being the
\* place of the failure in VisionOutcomes
IsVisionErrorRecord(record, v) ==
  /\ record["year"] = PyStr("Unknown")
  /\ record["confidence"] = ZeroConfidence
  /\ record["ai_generated_probability"] = PyInt(0)
  /\ record["description"] = Analyses[v]["description"]
  /\ ReasonDescribed[v]

\* every round has appended one record, and the record of a round whose
\* vision call failed is the error record of that failure
FailedRoundsDescribed ==
  /\ bstate = "returned" => Len(results) = Len(images)
  /\ Len(rounds) = Len(results)
  /\ \A k \in 1..Len(results) :
       VisionOf(rounds[k]).kind = "error" =>
         IsVisionErrorRecord(results[k], rounds[k].vision)

\* a step leaves the records made so far as they are, and a round appends
\* the record that its own outcomes determine
RoundsIndependent ==
  /\ Len(results') >= Len(results)
  /\ SubSeq(results', 1, Len(results)) = results
  /\ Len(results') > Len(results) =>
       /\ Len(rounds') = Len(results')
       /\ SubSeq(results', Len(results) + 1, Len(results')) =
            RecordOfRound(Len(results), uploaded_files, rounds'[Len(rounds')])

\* C11: when the vision call fails for an image, the batch still returns one
\* record per image; the record of the failed image has year "Unknown",
\* every confidence score 0, ai_generated_probability 0 and a non-empty
\* description that contains the failure reason; and every record is the one
\* its own round's outcomes determine and is never touched by a later round,
\* so the records of the other images are what they would be had the vision
\* call succeeded.
C11_VisionFailureIsolated ==
  []FailedRoundsDescribed /\ [][RoundsIndependent]_vars

\* C11 witness: a batch of two images has returned; the vision call failed
\* for the first image and the second image has its full record
C11_Witness ==
  /\ bstate = "returned"
  /\ Len(results) = 2
  /\ VisionOf(rounds[1]).kind = "error"
  /\ results[1]["description"] =
       PyStr("Error occurred during historical analysis: Request timed out.")
  /\ VisionOf(rounds[2]) = VisionPayload(SamplePayload)
  /\ results[2]["title"] = PyStr("Fall of the Berlin Wall")
  /\ "database_id" \in DOMAIN results[2]

\* record holds every field of analysed, with the value analysed gives it
KeepsFieldsOf(record, analysed) ==
  \A f \in DOMAIN analysed : f \in DOMAIN record /\ record[f] = analysed[f]

\* C12 (as claimed): whatever fails in the storage, geo-lookup,
\* reference-link or persistence step, the record appended for an image is
\* the one the vision step produced for it, field for field, with the
\* enrichment added to it, and it carries an image_url attribute.
C12_VisionRecordKept ==
  \A k \in 1..Len(results) :
    /\ k <= Len(rounds)
    /\ KeepsFieldsOf(results[k], Analyses[rounds[k].vision])
    /\ "image_url" \in DOMAIN results[k]

\* the placeholders of location_name and of event: the validator's defaults
\* and the values of the error record
LocationPlaceholders == {PyStr("Unknown Location"), PyStr("Unknown")}
EventPlaceholders ==
  {PyStr("Unidentified Historical Event"), PyStr("Error During Analysis")}

\* C13 (as claimed): a record, the record of a failed vision call included,
\* has a gps attribute only if its location_name is not a placeholder and a
\* wikipedia attribute only if its event is not a placeholder.
C13_NoEnrichmentOfPlaceholders ==
  \A k \in 1..Len(results) :
    /\ "gps" \in DOMAIN results[k] =>
         results[k]["location_name"] \notin LocationPlaceholders
    /\ "wikipedia" \in DOMAIN results[k] =>
         results[k]["event"] \notin EventPlaceholders

(***************************************************************************)
(* Properties of the persistence facade, checked under SpecDb.             *)
(***************************************************************************)
\* DatabaseManager() has returned
Constructed == db_state \in {"ready", "returned"}

\* a call of the given operation has returned
Answered(op) == db_state = "returned" /\ last_call.op = op

\* C14 (as claimed): after construction db_type is 'supabase' if the cloud
\* initialization raised nothing, otherwise 'postgresql' if DATABASE_URL is
\* set and the driver is available, otherwise 'sqlite'.
C14_BackendByPreference ==
  Constructed =>
    db_type = IF db_env.supabase_init_ok
              THEN "supabase"
              ELSE IF db_env.database_url /\ db_env.psycopg2
                   THEN "postgresql"
                   ELSE "sqlite"

\* C14 (amended): after construction db_type is one of 'supabase',
\* 'postgresql', 'sqlite': 'supabase' if the cloud initialization raised
\* nothing; otherwise 'postgresql' if DATABASE_URL is set, the driver is
\* available and the connection that creates the schema succeeds; otherwise
\* 'sqlite'.
C14_BackendByPreferenceWhenConnecting ==
  Constructed =>
    /\ db_type \in Backends
    /\ db_type = IF db_env.supabase_init_ok
                 THEN "supabase"
                 ELSE IF db_env.database_url /\ db_env.psycopg2 /\ db_env.pg_up
                      THEN "postgresql"
                      ELSE "sqlite"

\* C14 witness: DATABASE_URL is set and the driver is there, the server does
\* not answer, and the facade was constructed on SQLite
C14_Witness ==
  /\ Constructed
  /\ ~db_env.supabase_init_ok
  /\ db_env.database_url /\ db_env.psycopg2 /\ ~db_env.pg_up
  /\ db_type = "sqlite"

\* C15 (as claimed): when the cloud service is unreachable or refuses
\* requests while the DatabaseManager is constructed, the facade does not
\* select the cloud backend.
C15_UnavailableCloudNotSelected ==
  (Constructed /\ ~db_env.cloud_up) => db_type # "supabase"

\* the label of a backend in the statistics
LabelOf(type) ==
  CASE type = "supabase" -> "Supabase"
    [] type = "postgresql" -> "PostgreSQL"
    [] type = "sqlite" -> "SQLite"

\* a statistics summary carries the label of the backend selected
Labelled(summary) ==
  /\ summary.t = "dict"
  /\ "database_type" \in DOMAIN summary.d
  /\ summary.d["database_type"] = PyStr(LabelOf(db_type))

\* C16 (as claimed): every call of get_database_stats returns a summary
\* whose database_type is the label of the backend selected at construction.
C16_StatsLabelled == Answered("stats") => Labelled(last_call.out)

\* C16 (amended): every call of get_database_stats that returns a summary
\* other than the empty mapping returns one whose database_type is the label
\* of the backend selected at construction; the empty mapping, which the
\* PostgreSQL and SQLite implementations return when a statement fails, has
\* no label.
C16_NonEmptyStatsLabelled ==
  (Answered("stats") /\ last_call.out # EmptyDict) => Labelled(last_call.out)

\* C16 witness: the statistics of a non-empty SQLite table, labelled SQLite
C16_Witness ==
  /\ Answered("stats")
  /\ db_type = "sqlite"
  /\ Len(stores["sqlite"]) > 0
  /\ last_call.out.d["database_type"] = PyStr("SQLite")
  /\ last_call.out.d["total_records"] = PyInt(Len(stores["sqlite"]))

\* a step of a constructed facade keeps db_type, and a call is served by the
\* implementation of that backend
RoutedToSelected ==
  Constructed =>
    /\ db_type' = db_type
    /\ db_state' = "returned" => last_call'.served_by = db_type

\* C17: once the constructor has returned, no call, failing or not, changes
\* db_type, and every call is served by the implementation of that backend.
C17_NoHotSwap == [][RoutedToSelected]_vars

\* C17 witness: a save on PostgreSQL failed and was served by PostgreSQL:
\* nothing went to SQLite
C17_Witness ==
  /\ Answered("save")
  /\ db_type = "postgresql"
  /\ last_call.net = "raises"
  /\ last_call.served_by = "postgresql"
  /\ last_call.out = PyNone
  /\ stores["sqlite"] = <<>>

\* what the claim says an operation returns when its backend call fails
Sentinel(op) ==
  CASE op \in {"save", "get_by_id"} -> PyNone
    [] op \in {"history", "search"} -> EmptyList
    [] op = "stats" -> EmptyDict

\* C18 (as claimed): on every backend an operation whose backend call raises
\* or answers with a non-success status returns its sentinel: None for save
\* and get_by_id, [] for history and search, {} for stats.
C18_FailureSentinels ==
  (db_state = "returned" /\ last_call.net # "ok") =>
    last_call.out = Sentinel(last_call.op)

\* the query, in lower case, is a substring of the column value whatever
\* the case
Occurs(v, lowered) == v.t = "str" /\ Contains(PyLower(v.s), lowered)

\* the rows in which the query occurs in title, event or location_name
WhereQueryOccurs(rows, lowered) ==
  SelectSeq(rows, LAMBDA row : \/ Occurs(row.title, lowered)
                               \/ Occurs(row.event, lowered)
                               \/ Occurs(row.location_name, lowered))

\* C19 (as claimed): search returns the stored records, most recent first
\* and up to the limit, in which the query occurs as a case-insensitive
\* literal substring of title, event or location_name; a query that occurs
\* in no field of any record returns the empty list.
C19_SearchIsSubstringMatch ==
  (Answered("search") /\ last_call.net = "ok") =>
    last_call.out = Listing(WhereQueryOccurs(stores[db_type], PyLower(last_call.query)),
                            last_call.limit)

\* the rows a history or search call that went through selects from: all of
\* them, or those the filter of the backend accepts
Qualifying ==
  IF last_call.op = "history"
  THEN stores[db_type]
  ELSE WhereAnyColumn(stores[db_type],
                      IF db_type = "supabase"
                      THEN RestPattern(last_call.query)
                      ELSE SqlPattern(last_call.query))

\* created_at and id of the k-th mapping of a returned list
CreatedAt(listing, k) == listing.l[k].d["created_at"].n
IdOf(listing, k) == listing.l[k].d["id"].n

\* the list holds at most limit mappings in strictly descending order of
\* created_at
RecentFirst(listing, limit) ==
  /\ listing.t = "list"
  /\ Len(listing.l) <= limit
  /\ \A k \in 1..(Len(listing.l) - 1) : CreatedAt(listing, k) > CreatedAt(listing, k + 1)

\* the list holds as many of the qualifying rows as the limit allows, and
\* every qualifying row left out is older than every row of the list
MostRecentOf(listing, qualifying, limit) ==
  /\ Len(listing.l) = PyMin(limit, Len(qualifying))
  /\ \A k \in 1..Len(listing.l) :
       \E q \in 1..Len(qualifying) :
         /\ qualifying[q].id = IdOf(listing, k)
         /\ qualifying[q].created_at = CreatedAt(listing, k)
  /\ \A q \in 1..Len(qualifying) :
       \/ \E k \in 1..Len(listing.l) : qualifying[q].id = IdOf(listing, k)
       \/ \A k \in 1..Len(listing.l) : qualifying[q].created_at < CreatedAt(listing, k)

\* C20: history(limit) and search(query, limit) return at most limit
\* records in strictly descending order of created_at (the clock advances
\* between two saves, so a record saved later never comes after one saved
\* earlier); when the call went through they are qualifying records, as many
\* as the limit allows, and every qualifying record left out is older than
\* every record returned.
C20_RecentFirstWithinLimit ==
  (Answered("history") \/ Answered("search")) =>
    /\ RecentFirst(last_call.out, last_call.limit)
    /\ last_call.net = "ok" => MostRecentOf(last_call.out, Qualifying, last_call.limit)

\* C20 witness: two records are stored and history(1) returned the one saved
\* last
C20_Witness ==
  /\ Answered("history")
  /\ last_call.net = "ok"
  /\ last_call.limit = 1
  /\ Len(stores[db_type]) = 2
  /\ Len(last_call.out.l) = 1
  /\ CreatedAt(last_call.out, 1) = stores[db_type][2].created_at

\* the integer years of the rows
IntegerYears(rows) ==
  {rows[k].year.n : k \in {j \in 1..Len(rows) : rows[j].year.t = "int"}}

\* the ten greatest of the years, or all of them when there are fewer
TenGreatest(years) == {y \in years : Cardinality({z \in years : z > y}) < 10}

\* the number of rows of the year
RowsOfYear(rows, y) == Cardinality({k \in 1..Len(rows) : rows[k].year = PyInt(y)})

\* C21 (as claimed): after any sequence of successful saves, stats returns
\* total_records equal to the number of stored records, likely_ai_generated
\* equal to the number of stored records whose ai_generated_probability is
\* strictly greater than 70, and records_by_year mapping each of the (at
\* most) ten greatest years present among the stored records to the number
\* of stored records of that year.
C21_StatsCounts ==
  (Answered("stats") /\ last_call.net = "ok") =>
    LET rows == stores[last_call.served_by]
        summary == last_call.out.d
    IN /\ summary["total_records"] = PyInt(Len(rows))
       /\ summary["likely_ai_generated"] =
            PyInt(Cardinality({k \in 1..Len(rows) :
                                 rows[k].ai_generated_probability.n > 70}))
       /\ summary["records_by_year"] =
            PyDict([y \in {PyInt(n) : n \in TenGreatest(IntegerYears(rows))} |->
                      RowsOfYear(rows, y.n)])

\* an environment in which the facade selects the backend
EnvironmentOf(backend) == CHOOSE e \in Environments : DatabaseManager(e) = backend

\* the tables of a backend after the records of the first k rows were
\* saved to it, in the order in which the rows were stored
RECURSIVE Replayed(_, _, _)
Replayed(backend, rows, k) ==
  IF k = 0
  THEN NoStores
  ELSE save_analysis_result(EnvironmentOf(backend), backend,
                            Replayed(backend, rows, k - 1), rows[k].raw_result,
                            rows[k].image_name.s, rows[k].raw_result["image_url"],
                            "ok").tables

\* what the call of last_call returns on a backend that holds the tables
SameCallOn(backend, tables) ==
  CASE last_call.op = "history" ->
         get_analysis_history(EnvironmentOf(backend), backend, tables,
                              last_call.limit, "ok").out
    [] last_call.op = "search" ->
         search_analysis_results(EnvironmentOf(backend), backend, tables,
                                 last_call.query, last_call.limit, "ok").out
    [] last_call.op = "get_by_id" ->
         get_analysis_by_id(EnvironmentOf(backend), backend, tables,
                            last_call.analysis_id, "ok").out
    [] last_call.op = "stats" ->
         get_database_stats(EnvironmentOf(backend), backend, tables, "ok").out

\* a mapping without what the backend assigns
WithoutAssigned(v) ==
  IF v.t = "dict"
  THEN PyDict([k \in DOMAIN v.d \ {"id", "created_at", "database_type"} |-> v.d[k]])
  ELSE v

\* a returned value without what the backend assigns
UpToAssigned(v) ==
  IF v.t = "list"
  THEN PyList([k \in 1..Len(v.l) |-> WithoutAssigned(v.l[k])])
  ELSE WithoutAssigned(v)

\* C22 (as claimed): the three backends are observationally equivalent: the
\* same saves followed by the same history, search, get_by_id or stats call
\* return, on Supabase, PostgreSQL and SQLite, results with the same keys and
\* the same values up to the backend-assigned id, created_at and
\* database_type.
C22_BackendsEquivalent ==
  (db_state = "returned" /\ last_call.net = "ok" /\ last_call.op # "save") =>
    \A backend \in Backends :
      UpToAssigned(SameCallOn(backend,
                              Replayed(backend, stores[last_call.served_by],
                                       Len(stores[last_call.served_by]))))
        = UpToAssigned(last_call.out)

\* the row the last save added
LastRow == stores[last_call.served_by][Len(stores[last_call.served_by])]

\* C23 (as claimed): on every backend a save that returned an id persisted
\* the columns of the record shape, in particular the image_url argument
\* and the prompt, celebrity and celebrity_name of the record.
C23_AllColumnsPersisted ==
  (Answered("save") /\ last_call.out # PyNone) =>
    /\ {"image_url", "prompt", "celebrity", "celebrity_name"} \subseteq DOMAIN LastRow
    /\ LastRow["image_url"] = LastRow.raw_result["image_url"]
    /\ LastRow["prompt"] = LastRow.raw_result["prompt"]
    /\ LastRow["celebrity"] = LastRow.raw_result["celebrity"]
    /\ LastRow["celebrity_name"] = LastRow.raw_result["celebrity_name"]

\* the positions of an entry in the trace of the lookup
TraceAt(entry) == {k \in 1..Len(geo_trace) : geo_trace[k] = entry}

\* the lookup is over
GeoOver == geo_pc \in {"returned", "raised"}

\* the positions of the requests in the trace of the lookup
Requests == TraceAt("geocode") \cup TraceAt("geocode_simplified")

\* a service error and the third timeout are the last thing that happens,
\* and the function then returns None
EndsLookup ==
  /\ \A k \in TraceAt("service_error") :
       k = Len(geo_trace) /\ geo_pc = "returned" /\ geo_out = PyNone
  /\ Cardinality(TraceAt("timeout")) <= 3
  /\ Cardinality(TraceAt("timeout")) = 3 =>
       geo_trace[Len(geo_trace)] = "timeout" /\ geo_pc = "returned" /\ geo_out = PyNone

\* at most 3 requests, each but the first sent right after the wait that
\* followed a timeout, and no wait that no request follows
AtMostThreeRequests ==
  /\ Cardinality(Requests) <= 3
  /\ \A k \in Requests :
       k > 1 => geo_trace[k - 1] = "sleep" /\ geo_trace[k - 2] = "timeout"
  /\ \A k \in TraceAt("sleep") :
       /\ geo_trace[k - 1] = "timeout"
       /\ k = Len(geo_trace) => geo_pc = "attempt"
  /\ EndsLookup

\* C24 (as claimed): utils.get_gps_coordinates always terminates and makes
\* at most 3 geocoding attempts for a location: a new attempt is started
\* only after the previous attempt timed out, with a 1-second wait between
\* attempts and no wait after the last; a service error ends the lookup at
\* once; after the third timeout or a service error the function returns
\* None and raises nothing.
C24_AtMostThreeRequests == []AtMostThreeRequests /\ <>GeoOver

\* at most 3 turns of the retry loop, each but the first begun right after
\* the wait that followed a timeout; in a turn the simplified name is asked
\* for right after the service knew nothing for the name as given; no
\* wait that no turn follows
RetryDiscipline ==
  /\ Cardinality(TraceAt("geocode")) <= 3
  /\ \A k \in TraceAt("geocode") :
       k > 1 => geo_trace[k - 1] = "sleep" /\ geo_trace[k - 2] = "timeout"
  /\ \A k \in TraceAt("geocode_simplified") :
       geo_trace[k - 1] = "none" /\ geo_trace[k - 2] = "geocode"
  /\ Cardinality(Requests) <= 6
  /\ \A k \in TraceAt("sleep") :
       /\ geo_trace[k - 1] = "timeout"
       /\ k = Len(geo_trace) => geo_pc = "attempt"
  /\ EndsLookup

\* C24 (amended): utils.get_gps_coordinates always terminates and makes at
\* most 3 turns of its retry loop.  A turn asks the service for the name as
\* given and, right after the service knew nothing for it and without a
\* wait, once more for the simplified name when that differs, so that up to
\* 6 requests are sent.  A new turn starts only after a request of the
\* previous turn timed out and the function waited a second; there is no
\* wait after the last turn; a service error ends the lookup at once; after
\* the third timeout or a service error the function returns None and
\* raises nothing.
C24_BoundedRetries == []RetryDiscipline /\ <>GeoOver

\* C24 witness: the third attempt timed out after two waits and the
\* function returned None
C24_Witness ==
  /\ geo_pc = "returned"
  /\ geo_out = PyNone
  /\ Cardinality(TraceAt("timeout")) = 3
  /\ Cardinality(TraceAt("sleep")) = 2
  /\ Cardinality(TraceAt("geocode_simplified")) > 0

\* the value is one of the three shapes save_image_and_get_url returns:
\* None, a text that starts with "https://" or one that starts with
\* "local_storage://"
StoredShape(url) ==
  \/ url = PyNone
  \/ url.t = "str" /\ StartsWith(url.s, "https://")
  \/ url.t = "str" /\ StartsWith(url.s, "local_storage://")

\* C25: save_image_and_get_url raises nothing and returns a URL that starts
\* with "https://" when the remote upload succeeded, a pseudo-URL that
\* starts with "local_storage://" when the remote upload yielded no URL and
\* the local write succeeded, and None when both failed; every URL a round
\* of the batch stored is of one of these shapes.
C25_StoredUrlShapes ==
  /\ \A k \in 1..Len(rounds) : StoredShape(rounds[k].image_url)
  /\ \A k \in 1..Len(uploaded_files), upload_ok \in BOOLEAN, local_ok \in BOOLEAN :
       LET remote == upload_image(uploaded_files[k], k, upload_ok)
           url == save_image_and_get_url(uploaded_files[k], k, upload_ok, local_ok)
           local == uploaded_files[k].readable /\ local_ok
       IN /\ remote # PyNone => url = remote /\ StartsWith(url.s, "https://")
          /\ (remote = PyNone /\ local) =>
               url.t = "str" /\ StartsWith(url.s, "local_storage://")
          /\ (remote = PyNone /\ ~local) => url = PyNone

\* C25 witness: a batch of two rounds stored a remote URL in one and a
\* local pseudo-URL in the other
C25_Witness ==
  /\ Len(rounds) = 2
  /\ rounds[1].image_url # PyNone /\ StartsWith(rounds[1].image_url.s, "https://")
  /\ rounds[2].image_url # PyNone /\ StartsWith(rounds[2].image_url.s, "local_storage://")

\* C26 (as claimed): on a healthy backend save returns an id for every
\* record the batch loop hands to it, also when the year is "Unknown", the
\* gps is None or the wikipedia attribute is None.
C26_HealthySaveReturnsId ==
  (Answered("save") /\ last_call.net = "ok") => last_call.out # PyNone

\* the uploaded file the image of the call's record was decoded from
AnalysedFile(call) == uploaded_files[origin[call.result["image_index"].n].file]

\* C27 (as claimed): every record the batch saves carries the name of the
\* uploaded file its image was decoded from and a URL under which that
\* file was stored, also when some uploaded files did not load.
C27_NameAndUrlOfAnalysedFile ==
  \A k \in 1..Len(db_calls) :
    /\ db_calls[k].image_name = AnalysedFile(db_calls[k]).name
    /\ db_calls[k].image_url \in
         {save_image_and_get_url(AnalysedFile(db_calls[k]),
                                 db_calls[k].result["image_index"].n,
                                 upload_ok, local_ok) :
            upload_ok \in BOOLEAN, local_ok \in BOOLEAN}

\* the rows of the serving table that carry the id asked for
RowsWithId ==
  {k \in 1..Len(stores[last_call.served_by]) :
     stores[last_call.served_by][k].id = last_call.analysis_id}

\* C28 (as claimed): on every backend get_by_id of an id a save returned
\* yields a mapping equal to the record as it was passed to that save,
\* whatever was saved since, and get_by_id of an id no save returned
\* yields None.
C28_SaveGetRoundTrip ==
  (Answered("get_by_id") /\ last_call.net = "ok") =>
    /\ Cardinality(RowsWithId) <= 1
    /\ RowsWithId = {} => last_call.out = PyNone
    /\ \A k \in RowsWithId :
         last_call.out = PyDict(stores[last_call.served_by][k].raw_result)

\* the step is a save call
SaveStep == db_state = "ready" /\ last_call'.op = "save"

\* the step added one row at the end of the serving table and changed
\* nothing else
OneRowAdded ==
  \E backend \in Backends :
    /\ Len(stores'[backend]) = Len(stores[backend]) + 1
    /\ SubSeq(stores'[backend], 1, Len(stores[backend])) = stores[backend]
    /\ \A other \in Backends \ {backend} : stores'[other] = stores[other]

C30_YearKeysAreYears ==
  (Answered("stats") /\ last_call.net = "ok") =>
    \A key \in DOMAIN last_call.out.d["records_by_year"].d :
      key.t = "int" /\ key.n \in 1800..2024
====
